---- MODULE Spec2Model ----
(***************************************************************************)
(* The Coral interpreter (coral.py): terms, the matcher, the single-step   *)
(* rewriter, the full-reduction driver, the tokenizer, the parser and the  *)
(* read-eval-print loop.                                                   *)
(*                                                                         *)
(* A Python str is modelled as the sequence of its characters, each a      *)
(* string: "s 0" is <<"s", " ", "0">>.  An ASCII character is written as   *)
(* itself, any other character as its code point: "U+00C9", "U+1D400".     *)
(*                                                                         *)
(* A Term object is the record [type, val, kids]: `val` is the name of an  *)
(* atom or of a variable, `kids` is the list of children that the Python   *)
(* object keeps in `val` when its type is GROUP.                           *)
(***************************************************************************)
EXTENDS Integers, Sequences, FiniteSets, TLC

VARIABLES
    args,       \* main: the library files named on the command line
    nloaded,    \* main: how many of args the start-up loop has loaded
    rules,      \* main: the rule set, head key -> list of <<lhs, rhs>>
    stdin,      \* the lines that input() is still to return
    out,        \* standard output, the characters written so far
    inp,        \* main: the line that input() returned last
    pc,         \* where the program is
    initial_term, \* full_reduce: the root term being reduced
    queue,      \* full_reduce: the FIFO queue, as paths below initial_term
    text,       \* tokenizer harness: the lines of a stream
    mode,       \* parser harness: LEFT, RIGHT or INPUT
    tokens,     \* parser harness: the token list
    parsed,     \* parser harness: what parse_term returned or raised
    rendered,   \* parser harness: the term whose rendering the text is, if any
    pattern,    \* matcher harness: the pattern
    subject,    \* matcher harness: the term matched against it
    table,      \* matcher harness: the table handed to match
    matched,    \* matcher harness: what match returned, with its table
    heap,       \* object store: the Term objects, by address
    hrules,     \* object store: the rule set, its lhs and rhs as addresses
    hterm,      \* object store: the address of full_reduce's initial_term
    hqueue      \* object store: full_reduce's queue, as addresses

\* the state of a session of main
session == <<args, nloaded, rules, stdin, inp, out, pc, initial_term, queue>>

\* the state of the parser harness and of the matcher harness
parsing == <<text, mode, tokens, parsed, rendered>>
matching == <<pattern, subject, table, matched>>

\* the Term objects of a session in which terms are references
objects == <<heap, hrules, hterm, hqueue>>

vars == <<session, parsing, matching, objects>>

-----------------------------------------------------------------------------
(* Term model *)

ATOM == 0
VAR == 1
GROUP == 2

Term(val, type) ==
    IF type = GROUP THEN [type |-> GROUP, val |-> <<>>, kids |-> val]
    ELSE [type |-> type, val |-> val, kids |-> <<>>]

\* Python's None, and the KeyError raised by a failed table lookup, as
\* values distinct from every Term.
None == [type |-> -1, val |-> <<>>, kids |-> <<>>]
KeyError == [type |-> -2, val |-> <<>>, kids |-> <<>>]

is_atom(term) == term.type = ATOM

is_var(term) == term.type = VAR

is_group(term) == term.type = GROUP

RECURSIVE Join(_, _)
\* sep.join(strs)
Join(strs, sep) ==
    IF Len(strs) = 0 THEN <<>>
    ELSE IF Len(strs) = 1 THEN strs[1]
    ELSE strs[1] \o sep \o Join(Tail(strs), sep)

RECURSIVE str_bare(_)
\* a rendering that writes no parentheses
str_bare(term) ==
    IF is_atom(term) \/ is_var(term) THEN term.val
    ELSE Join([k \in 1..Len(term.kids) |-> str_bare(term.kids[k])], <<" ">>)

RECURSIVE str(_)
\* Term.__str__
str(term) ==
    IF is_atom(term) \/ is_var(term) THEN term.val
    ELSE <<"(">> \o Join([k \in 1..Len(term.kids) |-> str(term.kids[k])], <<" ">>) \o <<")">>

RECURSIVE clone(_)
clone(term) ==
    IF is_atom(term) THEN Term(term.val, ATOM)
    ELSE IF is_var(term) THEN Term(term.val, VAR)
    ELSE Term([k \in 1..Len(term.kids) |-> clone(term.kids[k])], GROUP)

RECURSIVE replace(_, _)
\* A lookup of a variable the table does not hold raises KeyError, which
\* leaves every enclosing call.
replace(term, table_) ==
    IF is_atom(term) THEN term
    ELSE IF is_var(term) THEN
        IF term.val \in DOMAIN table_ THEN clone(table_[term.val]) ELSE KeyError
    ELSE LET new == [k \in 1..Len(term.kids) |-> replace(term.kids[k], table_)]
         IN IF \E k \in 1..Len(new) : new[k] = KeyError THEN KeyError
            ELSE [term EXCEPT !.kids = new]

-----------------------------------------------------------------------------
(* Matcher *)

EmptyTable == [v \in {} |-> None]

\* a matcher that binds a variable to the pattern's own Variable node
bind_variable(table_, name, term) ==
    [v \in DOMAIN table_ \cup {name} |-> IF v = name THEN Term(name, VAR) ELSE table_[v]]

\* table[name] = term
bind(table_, name, term) ==
    [v \in DOMAIN table_ \cup {name} |-> IF v = name THEN term ELSE table_[v]]

\* `term.val == table[pattern.val]`: the left operand is a str or a list,
\* the right one a Term object whose class defines no __eq__, so Python
\* compares by identity and the result is False for every pair.
bound_equals(term, bound) == FALSE

\* a matcher that lets a pattern match a longer application
match_group_prefix(pattern_, term) ==
    is_group(term) /\ Len(pattern_.kids) <= Len(term.kids)

\* the negation of the guard `not is_group(term) or len(...) != len(...)`
match_group(pattern_, term) ==
    is_group(term) /\ Len(pattern_.kids) = Len(term.kids)

RECURSIVE match(_, _, _), match_zip(_, _, _, _)
\* Returns [ok, table]: the boolean result and the table as match left it.
match(pattern_, term, table_) ==
    IF is_atom(pattern_) THEN
        [ok |-> is_atom(term) /\ pattern_.val = term.val, table |-> table_]
    ELSE IF is_var(pattern_) THEN
        IF pattern_.val \in DOMAIN table_
        THEN [ok |-> bound_equals(term, table_[pattern_.val]), table |-> table_]
        ELSE [ok |-> TRUE, table |-> bind(table_, pattern_.val, term)]
    ELSE IF ~match_group(pattern_, term) THEN [ok |-> FALSE, table |-> table_]
    ELSE match_zip(pattern_.kids, term.kids, 1, table_)

\* for a, b in zip(pattern.val, term.val), from the k-th pair on
match_zip(as, bs, k, table_) ==
    IF k > Len(as) \/ k > Len(bs) THEN [ok |-> TRUE, table |-> table_]
    ELSE LET m == match(as[k], bs[k], table_)
         IN IF ~m.ok THEN m ELSE match_zip(as, bs, k + 1, m.table)

-----------------------------------------------------------------------------
(* Rewriter *)

\* the head atom of the built-in
print_name == <<"p", "r", "i", "n", "t">>

NoRules == [key \in {} |-> <<>>]

\* what print(x) writes
print_line(x) == x \o <<"\n">>

RECURSIVE reduce_atom_rules_last(_, _, _)
\* a rewriter of atoms in which the last matching rule wins
reduce_atom_rules_last(rs, j, term) ==
    IF j > Len(rs) THEN None
    ELSE LET later == reduce_atom_rules_last(rs, j + 1, term)
         IN IF later # None THEN later
            ELSE IF match(rs[j][1], term, EmptyTable).ok THEN clone(rs[j][2])
            ELSE None

RECURSIVE reduce_atom_rules(_, _, _)
\* for lhs, rhs in rules[term.val], from the j-th rule on
reduce_atom_rules(rs, j, term) ==
    IF j > Len(rs) THEN None
    ELSE IF match(rs[j][1], term, EmptyTable).ok THEN clone(rs[j][2])
    ELSE reduce_atom_rules(rs, j + 1, term)

RECURSIVE reduce_group_rules_last(_, _, _)
\* a rewriter in which the last matching rule wins
reduce_group_rules_last(rs, j, term) ==
    IF j > Len(rs) THEN None
    ELSE LET later == reduce_group_rules_last(rs, j + 1, term)
             m == match(rs[j][1], term, EmptyTable)
         IN IF later # None THEN later
            ELSE IF m.ok THEN replace(clone(rs[j][2]), m.table)
            ELSE None

RECURSIVE reduce_group_rules(_, _, _)
\* for lhs, rhs in rules[first.val], from the j-th rule on
reduce_group_rules(rs, j, term) ==
    IF j > Len(rs) THEN None
    ELSE LET m == match(rs[j][1], term, EmptyTable)
         IN IF m.ok THEN replace(clone(rs[j][2]), m.table)
            ELSE reduce_group_rules(rs, j + 1, term)

\* a built-in that fires on every application headed by print
is_print_any_length(term) ==
    /\ is_group(term)
    /\ Len(term.kids) >= 2
    /\ is_atom(term.kids[1])
    /\ term.kids[1].val = print_name

is_print(term) ==
    /\ is_group(term)
    /\ Len(term.kids) = 2
    /\ is_atom(term.kids[1])
    /\ term.kids[1].val = print_name

\* Returns [res, printed]: the new term, None, or KeyError when replace
\* raised, and what the call wrote to standard output.
reduce(term, rules_) ==
    IF is_var(term) THEN [res |-> None, printed |-> <<>>]
    ELSE IF is_atom(term) THEN
        [res |-> IF term.val \in DOMAIN rules_
                 THEN reduce_atom_rules(rules_[term.val], 1, term)
                 ELSE None,
         printed |-> <<>>]
    ELSE IF Len(term.kids) = 0 \/ ~is_atom(term.kids[1]) THEN
        [res |-> None, printed |-> <<>>]
    ELSE IF is_print(term) THEN
        [res |-> term.kids[2], printed |-> print_line(str(term.kids[2]))]
    ELSE
        [res |-> IF term.kids[1].val \in DOMAIN rules_
                 THEN reduce_group_rules(rules_[term.kids[1].val], 1, term)
                 ELSE None,
         printed |-> <<>>]

-----------------------------------------------------------------------------
(* Tokens *)

\* a token that keeps the 0-based column
Token_zero_based(kind, val, file, row, col) ==
    [kind |-> kind, val |-> val, file |-> file, line |-> row + 1, col |-> col]

\* A token: its class, its text, and the position Token.__init__ stores
\* (row and col are 0-based, line and col of the token are 1-based).
Token(kind, val, file, row, col) ==
    [kind |-> kind, val |-> val, file |-> file, line |-> row + 1, col |-> col + 1]

NewLine(val, file, row, col) == Token("NewLine", val, file, row, col)

Symbol(val, file, row, col) == Token("Symbol", val, file, row, col)

Atom(val, file, row, col) == Token("Atom", val, file, row, col)

Variable(val, file, row, col) == Token("Variable", val, file, row, col)

whitespace == {" ", "\n", "\t"}

symbols == {"(", ")", "=", "#"}

non_word == symbols \cup whitespace

\* A character is a string: an ASCII character is the string of that one
\* character, and a character above U+007F is the string "U+" followed by its
\* code point in upper-case hexadecimal, at least four digits ("U+00C9" is
\* LATIN CAPITAL LETTER E WITH ACUTE, "U+1D400" is MATHEMATICAL BOLD CAPITAL
\* A).  A Python str is the sequence of its characters, so that the text
\* "\u00c9a" is <<"U+00C9", "a">> and has length 2.

\* {c : c.isupper()} over U+0000..U+10FFFF: the 1951 cased characters that
\* are capitals in the Unicode database of the interpreter (14.0).  Lower-case
\* and title-case letters, digits and symbols are not among them.
uppercase ==
    {
      "A", "B", "C", "D", "E", "F", "G", "H", "I", "J", "K", "L", "M",
      "N", "O", "P", "Q", "R", "S", "T", "U", "V", "W", "X", "Y", "Z",
      "U+00C0", "U+00C1", "U+00C2", "U+00C3", "U+00C4", "U+00C5", "U+00C6", "U+00C7",
      "U+00C8", "U+00C9", "U+00CA", "U+00CB", "U+00CC", "U+00CD", "U+00CE", "U+00CF",
      "U+00D0", "U+00D1", "U+00D2", "U+00D3", "U+00D4", "U+00D5", "U+00D6", "U+00D8",
      "U+00D9", "U+00DA", "U+00DB", "U+00DC", "U+00DD", "U+00DE", "U+0100", "U+0102",
      "U+0104", "U+0106", "U+0108", "U+010A", "U+010C", "U+010E", "U+0110", "U+0112",
      "U+0114", "U+0116", "U+0118", "U+011A", "U+011C", "U+011E", "U+0120", "U+0122",
      "U+0124", "U+0126", "U+0128", "U+012A", "U+012C", "U+012E", "U+0130", "U+0132",
      "U+0134", "U+0136", "U+0139", "U+013B", "U+013D", "U+013F", "U+0141", "U+0143",
      "U+0145", "U+0147", "U+014A", "U+014C", "U+014E", "U+0150", "U+0152", "U+0154",
      "U+0156", "U+0158", "U+015A", "U+015C", "U+015E", "U+0160", "U+0162", "U+0164",
      "U+0166", "U+0168", "U+016A", "U+016C", "U+016E", "U+0170", "U+0172", "U+0174",
      "U+0176", "U+0178", "U+0179", "U+017B", "U+017D", "U+0181", "U+0182", "U+0184",
      "U+0186", "U+0187", "U+0189", "U+018A", "U+018B", "U+018E", "U+018F", "U+0190",
      "U+0191", "U+0193", "U+0194", "U+0196", "U+0197", "U+0198", "U+019C", "U+019D",
      "U+019F", "U+01A0", "U+01A2", "U+01A4", "U+01A6", "U+01A7", "U+01A9", "U+01AC",
      "U+01AE", "U+01AF", "U+01B1", "U+01B2", "U+01B3", "U+01B5", "U+01B7", "U+01B8",
      "U+01BC", "U+01C4", "U+01C7", "U+01CA", "U+01CD", "U+01CF", "U+01D1", "U+01D3",
      "U+01D5", "U+01D7", "U+01D9", "U+01DB", "U+01DE", "U+01E0", "U+01E2", "U+01E4",
      "U+01E6", "U+01E8", "U+01EA", "U+01EC", "U+01EE", "U+01F1", "U+01F4", "U+01F6",
      "U+01F7", "U+01F8", "U+01FA", "U+01FC", "U+01FE", "U+0200", "U+0202", "U+0204",
      "U+0206", "U+0208", "U+020A", "U+020C", "U+020E", "U+0210", "U+0212", "U+0214",
      "U+0216", "U+0218", "U+021A", "U+021C", "U+021E", "U+0220", "U+0222", "U+0224",
      "U+0226", "U+0228", "U+022A", "U+022C", "U+022E", "U+0230", "U+0232", "U+023A",
      "U+023B", "U+023D", "U+023E", "U+0241", "U+0243", "U+0244", "U+0245", "U+0246",
      "U+0248", "U+024A", "U+024C", "U+024E", "U+0370", "U+0372", "U+0376", "U+037F",
      "U+0386", "U+0388", "U+0389", "U+038A", "U+038C", "U+038E", "U+038F", "U+0391",
      "U+0392", "U+0393", "U+0394", "U+0395", "U+0396", "U+0397", "U+0398", "U+0399",
      "U+039A", "U+039B", "U+039C", "U+039D", "U+039E", "U+039F", "U+03A0", "U+03A1",
      "U+03A3", "U+03A4", "U+03A5", "U+03A6", "U+03A7", "U+03A8", "U+03A9", "U+03AA",
      "U+03AB", "U+03CF", "U+03D2", "U+03D3", "U+03D4", "U+03D8", "U+03DA", "U+03DC",
      "U+03DE", "U+03E0", "U+03E2", "U+03E4", "U+03E6", "U+03E8", "U+03EA", "U+03EC",
      "U+03EE", "U+03F4", "U+03F7", "U+03F9", "U+03FA", "U+03FD", "U+03FE", "U+03FF",
      "U+0400", "U+0401", "U+0402", "U+0403", "U+0404", "U+0405", "U+0406", "U+0407",
      "U+0408", "U+0409", "U+040A", "U+040B", "U+040C", "U+040D", "U+040E", "U+040F",
      "U+0410", "U+0411", "U+0412", "U+0413", "U+0414", "U+0415", "U+0416", "U+0417",
      "U+0418", "U+0419", "U+041A", "U+041B", "U+041C", "U+041D", "U+041E", "U+041F",
      "U+0420", "U+0421", "U+0422", "U+0423", "U+0424", "U+0425", "U+0426", "U+0427",
      "U+0428", "U+0429", "U+042A", "U+042B", "U+042C", "U+042D", "U+042E", "U+042F",
      "U+0460", "U+0462", "U+0464", "U+0466", "U+0468", "U+046A", "U+046C", "U+046E",
      "U+0470", "U+0472", "U+0474", "U+0476", "U+0478", "U+047A", "U+047C", "U+047E",
      "U+0480", "U+048A", "U+048C", "U+048E", "U+0490", "U+0492", "U+0494", "U+0496",
      "U+0498", "U+049A", "U+049C", "U+049E", "U+04A0", "U+04A2", "U+04A4", "U+04A6",
      "U+04A8", "U+04AA", "U+04AC", "U+04AE", "U+04B0", "U+04B2", "U+04B4", "U+04B6",
      "U+04B8", "U+04BA", "U+04BC", "U+04BE", "U+04C0", "U+04C1", "U+04C3", "U+04C5",
      "U+04C7", "U+04C9", "U+04CB", "U+04CD", "U+04D0", "U+04D2", "U+04D4", "U+04D6",
      "U+04D8", "U+04DA", "U+04DC", "U+04DE", "U+04E0", "U+04E2", "U+04E4", "U+04E6",
      "U+04E8", "U+04EA", "U+04EC", "U+04EE", "U+04F0", "U+04F2", "U+04F4", "U+04F6",
      "U+04F8", "U+04FA", "U+04FC", "U+04FE", "U+0500", "U+0502", "U+0504", "U+0506",
      "U+0508", "U+050A", "U+050C", "U+050E", "U+0510", "U+0512", "U+0514", "U+0516",
      "U+0518", "U+051A", "U+051C", "U+051E", "U+0520", "U+0522", "U+0524", "U+0526",
      "U+0528", "U+052A", "U+052C", "U+052E", "U+0531", "U+0532", "U+0533", "U+0534",
      "U+0535", "U+0536", "U+0537", "U+0538", "U+0539", "U+053A", "U+053B", "U+053C",
      "U+053D", "U+053E", "U+053F", "U+0540", "U+0541", "U+0542", "U+0543", "U+0544",
      "U+0545", "U+0546", "U+0547", "U+0548", "U+0549", "U+054A", "U+054B", "U+054C",
      "U+054D", "U+054E", "U+054F", "U+0550", "U+0551", "U+0552", "U+0553", "U+0554",
      "U+0555", "U+0556", "U+10A0", "U+10A1", "U+10A2", "U+10A3", "U+10A4", "U+10A5",
      "U+10A6", "U+10A7", "U+10A8", "U+10A9", "U+10AA", "U+10AB", "U+10AC", "U+10AD",
      "U+10AE", "U+10AF", "U+10B0", "U+10B1", "U+10B2", "U+10B3", "U+10B4", "U+10B5",
      "U+10B6", "U+10B7", "U+10B8", "U+10B9", "U+10BA", "U+10BB", "U+10BC", "U+10BD",
      "U+10BE", "U+10BF", "U+10C0", "U+10C1", "U+10C2", "U+10C3", "U+10C4", "U+10C5",
      "U+10C7", "U+10CD", "U+13A0", "U+13A1", "U+13A2", "U+13A3", "U+13A4", "U+13A5",
      "U+13A6", "U+13A7", "U+13A8", "U+13A9", "U+13AA", "U+13AB", "U+13AC", "U+13AD",
      "U+13AE", "U+13AF", "U+13B0", "U+13B1", "U+13B2", "U+13B3", "U+13B4", "U+13B5",
      "U+13B6", "U+13B7", "U+13B8", "U+13B9", "U+13BA", "U+13BB", "U+13BC", "U+13BD",
      "U+13BE", "U+13BF", "U+13C0", "U+13C1", "U+13C2", "U+13C3", "U+13C4", "U+13C5",
      "U+13C6", "U+13C7", "U+13C8", "U+13C9", "U+13CA", "U+13CB", "U+13CC", "U+13CD",
      "U+13CE", "U+13CF", "U+13D0", "U+13D1", "U+13D2", "U+13D3", "U+13D4", "U+13D5",
      "U+13D6", "U+13D7", "U+13D8", "U+13D9", "U+13DA", "U+13DB", "U+13DC", "U+13DD",
      "U+13DE", "U+13DF", "U+13E0", "U+13E1", "U+13E2", "U+13E3", "U+13E4", "U+13E5",
      "U+13E6", "U+13E7", "U+13E8", "U+13E9", "U+13EA", "U+13EB", "U+13EC", "U+13ED",
      "U+13EE", "U+13EF", "U+13F0", "U+13F1", "U+13F2", "U+13F3", "U+13F4", "U+13F5",
      "U+1C90", "U+1C91", "U+1C92", "U+1C93", "U+1C94", "U+1C95", "U+1C96", "U+1C97",
      "U+1C98", "U+1C99", "U+1C9A", "U+1C9B", "U+1C9C", "U+1C9D", "U+1C9E", "U+1C9F",
      "U+1CA0", "U+1CA1", "U+1CA2", "U+1CA3", "U+1CA4", "U+1CA5", "U+1CA6", "U+1CA7",
      "U+1CA8", "U+1CA9", "U+1CAA", "U+1CAB", "U+1CAC", "U+1CAD", "U+1CAE", "U+1CAF",
      "U+1CB0", "U+1CB1", "U+1CB2", "U+1CB3", "U+1CB4", "U+1CB5", "U+1CB6", "U+1CB7",
      "U+1CB8", "U+1CB9", "U+1CBA", "U+1CBD", "U+1CBE", "U+1CBF", "U+1E00", "U+1E02",
      "U+1E04", "U+1E06", "U+1E08", "U+1E0A", "U+1E0C", "U+1E0E", "U+1E10", "U+1E12",
      "U+1E14", "U+1E16", "U+1E18", "U+1E1A", "U+1E1C", "U+1E1E", "U+1E20", "U+1E22",
      "U+1E24", "U+1E26", "U+1E28", "U+1E2A", "U+1E2C", "U+1E2E", "U+1E30", "U+1E32",
      "U+1E34", "U+1E36", "U+1E38", "U+1E3A", "U+1E3C", "U+1E3E", "U+1E40", "U+1E42",
      "U+1E44", "U+1E46", "U+1E48", "U+1E4A", "U+1E4C", "U+1E4E", "U+1E50", "U+1E52",
      "U+1E54", "U+1E56", "U+1E58", "U+1E5A", "U+1E5C", "U+1E5E", "U+1E60", "U+1E62",
      "U+1E64", "U+1E66", "U+1E68", "U+1E6A", "U+1E6C", "U+1E6E", "U+1E70", "U+1E72",
      "U+1E74", "U+1E76", "U+1E78", "U+1E7A", "U+1E7C", "U+1E7E", "U+1E80", "U+1E82",
      "U+1E84", "U+1E86", "U+1E88", "U+1E8A", "U+1E8C", "U+1E8E", "U+1E90", "U+1E92",
      "U+1E94", "U+1E9E", "U+1EA0", "U+1EA2", "U+1EA4", "U+1EA6", "U+1EA8", "U+1EAA",
      "U+1EAC", "U+1EAE", "U+1EB0", "U+1EB2", "U+1EB4", "U+1EB6", "U+1EB8", "U+1EBA",
      "U+1EBC", "U+1EBE", "U+1EC0", "U+1EC2", "U+1EC4", "U+1EC6", "U+1EC8", "U+1ECA",
      "U+1ECC", "U+1ECE", "U+1ED0", "U+1ED2", "U+1ED4", "U+1ED6", "U+1ED8", "U+1EDA",
      "U+1EDC", "U+1EDE", "U+1EE0", "U+1EE2", "U+1EE4", "U+1EE6", "U+1EE8", "U+1EEA",
      "U+1EEC", "U+1EEE", "U+1EF0", "U+1EF2", "U+1EF4", "U+1EF6", "U+1EF8", "U+1EFA",
      "U+1EFC", "U+1EFE", "U+1F08", "U+1F09", "U+1F0A", "U+1F0B", "U+1F0C", "U+1F0D",
      "U+1F0E", "U+1F0F", "U+1F18", "U+1F19", "U+1F1A", "U+1F1B", "U+1F1C", "U+1F1D",
      "U+1F28", "U+1F29", "U+1F2A", "U+1F2B", "U+1F2C", "U+1F2D", "U+1F2E", "U+1F2F",
      "U+1F38", "U+1F39", "U+1F3A", "U+1F3B", "U+1F3C", "U+1F3D", "U+1F3E", "U+1F3F",
      "U+1F48", "U+1F49", "U+1F4A", "U+1F4B", "U+1F4C", "U+1F4D", "U+1F59", "U+1F5B",
      "U+1F5D", "U+1F5F", "U+1F68", "U+1F69", "U+1F6A", "U+1F6B", "U+1F6C", "U+1F6D",
      "U+1F6E", "U+1F6F", "U+1FB8", "U+1FB9", "U+1FBA", "U+1FBB", "U+1FC8", "U+1FC9",
      "U+1FCA", "U+1FCB", "U+1FD8", "U+1FD9", "U+1FDA", "U+1FDB", "U+1FE8", "U+1FE9",
      "U+1FEA", "U+1FEB", "U+1FEC", "U+1FF8", "U+1FF9", "U+1FFA", "U+1FFB", "U+2102",
      "U+2107", "U+210B", "U+210C", "U+210D", "U+2110", "U+2111", "U+2112", "U+2115",
      "U+2119", "U+211A", "U+211B", "U+211C", "U+211D", "U+2124", "U+2126", "U+2128",
      "U+212A", "U+212B", "U+212C", "U+212D", "U+2130", "U+2131", "U+2132", "U+2133",
      "U+213E", "U+213F", "U+2145", "U+2160", "U+2161", "U+2162", "U+2163", "U+2164",
      "U+2165", "U+2166", "U+2167", "U+2168", "U+2169", "U+216A", "U+216B", "U+216C",
      "U+216D", "U+216E", "U+216F", "U+2183", "U+24B6", "U+24B7", "U+24B8", "U+24B9",
      "U+24BA", "U+24BB", "U+24BC", "U+24BD", "U+24BE", "U+24BF", "U+24C0", "U+24C1",
      "U+24C2", "U+24C3", "U+24C4", "U+24C5", "U+24C6", "U+24C7", "U+24C8", "U+24C9",
      "U+24CA", "U+24CB", "U+24CC", "U+24CD", "U+24CE", "U+24CF", "U+2C00", "U+2C01",
      "U+2C02", "U+2C03", "U+2C04", "U+2C05", "U+2C06", "U+2C07", "U+2C08", "U+2C09",
      "U+2C0A", "U+2C0B", "U+2C0C", "U+2C0D", "U+2C0E", "U+2C0F", "U+2C10", "U+2C11",
      "U+2C12", "U+2C13", "U+2C14", "U+2C15", "U+2C16", "U+2C17", "U+2C18", "U+2C19",
      "U+2C1A", "U+2C1B", "U+2C1C", "U+2C1D", "U+2C1E", "U+2C1F", "U+2C20", "U+2C21",
      "U+2C22", "U+2C23", "U+2C24", "U+2C25", "U+2C26", "U+2C27", "U+2C28", "U+2C29",
      "U+2C2A", "U+2C2B", "U+2C2C", "U+2C2D", "U+2C2E", "U+2C2F", "U+2C60", "U+2C62",
      "U+2C63", "U+2C64", "U+2C67", "U+2C69", "U+2C6B", "U+2C6D", "U+2C6E", "U+2C6F",
      "U+2C70", "U+2C72", "U+2C75", "U+2C7E", "U+2C7F", "U+2C80", "U+2C82", "U+2C84",
      "U+2C86", "U+2C88", "U+2C8A", "U+2C8C", "U+2C8E", "U+2C90", "U+2C92", "U+2C94",
      "U+2C96", "U+2C98", "U+2C9A", "U+2C9C", "U+2C9E", "U+2CA0", "U+2CA2", "U+2CA4",
      "U+2CA6", "U+2CA8", "U+2CAA", "U+2CAC", "U+2CAE", "U+2CB0", "U+2CB2", "U+2CB4",
      "U+2CB6", "U+2CB8", "U+2CBA", "U+2CBC", "U+2CBE", "U+2CC0", "U+2CC2", "U+2CC4",
      "U+2CC6", "U+2CC8", "U+2CCA", "U+2CCC", "U+2CCE", "U+2CD0", "U+2CD2", "U+2CD4",
      "U+2CD6", "U+2CD8", "U+2CDA", "U+2CDC", "U+2CDE", "U+2CE0", "U+2CE2", "U+2CEB",
      "U+2CED", "U+2CF2", "U+A640", "U+A642", "U+A644", "U+A646", "U+A648", "U+A64A",
      "U+A64C", "U+A64E", "U+A650", "U+A652", "U+A654", "U+A656", "U+A658", "U+A65A",
      "U+A65C", "U+A65E", "U+A660", "U+A662", "U+A664", "U+A666", "U+A668", "U+A66A",
      "U+A66C", "U+A680", "U+A682", "U+A684", "U+A686", "U+A688", "U+A68A", "U+A68C",
      "U+A68E", "U+A690", "U+A692", "U+A694", "U+A696", "U+A698", "U+A69A", "U+A722",
      "U+A724", "U+A726", "U+A728", "U+A72A", "U+A72C", "U+A72E", "U+A732", "U+A734",
      "U+A736", "U+A738", "U+A73A", "U+A73C", "U+A73E", "U+A740", "U+A742", "U+A744",
      "U+A746", "U+A748", "U+A74A", "U+A74C", "U+A74E", "U+A750", "U+A752", "U+A754",
      "U+A756", "U+A758", "U+A75A", "U+A75C", "U+A75E", "U+A760", "U+A762", "U+A764",
      "U+A766", "U+A768", "U+A76A", "U+A76C", "U+A76E", "U+A779", "U+A77B", "U+A77D",
      "U+A77E", "U+A780", "U+A782", "U+A784", "U+A786", "U+A78B", "U+A78D", "U+A790",
      "U+A792", "U+A796", "U+A798", "U+A79A", "U+A79C", "U+A79E", "U+A7A0", "U+A7A2",
      "U+A7A4", "U+A7A6", "U+A7A8", "U+A7AA", "U+A7AB", "U+A7AC", "U+A7AD", "U+A7AE",
      "U+A7B0", "U+A7B1", "U+A7B2", "U+A7B3", "U+A7B4", "U+A7B6", "U+A7B8", "U+A7BA",
      "U+A7BC", "U+A7BE", "U+A7C0", "U+A7C2", "U+A7C4", "U+A7C5", "U+A7C6", "U+A7C7",
      "U+A7C9", "U+A7D0", "U+A7D6", "U+A7D8", "U+A7F5", "U+FF21", "U+FF22", "U+FF23",
      "U+FF24", "U+FF25", "U+FF26", "U+FF27", "U+FF28", "U+FF29", "U+FF2A", "U+FF2B",
      "U+FF2C", "U+FF2D", "U+FF2E", "U+FF2F", "U+FF30", "U+FF31", "U+FF32", "U+FF33",
      "U+FF34", "U+FF35", "U+FF36", "U+FF37", "U+FF38", "U+FF39", "U+FF3A", "U+10400",
      "U+10401", "U+10402", "U+10403", "U+10404", "U+10405", "U+10406", "U+10407", "U+10408",
      "U+10409", "U+1040A", "U+1040B", "U+1040C", "U+1040D", "U+1040E", "U+1040F", "U+10410",
      "U+10411", "U+10412", "U+10413", "U+10414", "U+10415", "U+10416", "U+10417", "U+10418",
      "U+10419", "U+1041A", "U+1041B", "U+1041C", "U+1041D", "U+1041E", "U+1041F", "U+10420",
      "U+10421", "U+10422", "U+10423", "U+10424", "U+10425", "U+10426", "U+10427", "U+104B0",
      "U+104B1", "U+104B2", "U+104B3", "U+104B4", "U+104B5", "U+104B6", "U+104B7", "U+104B8",
      "U+104B9", "U+104BA", "U+104BB", "U+104BC", "U+104BD", "U+104BE", "U+104BF", "U+104C0",
      "U+104C1", "U+104C2", "U+104C3", "U+104C4", "U+104C5", "U+104C6", "U+104C7", "U+104C8",
      "U+104C9", "U+104CA", "U+104CB", "U+104CC", "U+104CD", "U+104CE", "U+104CF", "U+104D0",
      "U+104D1", "U+104D2", "U+104D3", "U+10570", "U+10571", "U+10572", "U+10573", "U+10574",
      "U+10575", "U+10576", "U+10577", "U+10578", "U+10579", "U+1057A", "U+1057C", "U+1057D",
      "U+1057E", "U+1057F", "U+10580", "U+10581", "U+10582", "U+10583", "U+10584", "U+10585",
      "U+10586", "U+10587", "U+10588", "U+10589", "U+1058A", "U+1058C", "U+1058D", "U+1058E",
      "U+1058F", "U+10590", "U+10591", "U+10592", "U+10594", "U+10595", "U+10C80", "U+10C81",
      "U+10C82", "U+10C83", "U+10C84", "U+10C85", "U+10C86", "U+10C87", "U+10C88", "U+10C89",
      "U+10C8A", "U+10C8B", "U+10C8C", "U+10C8D", "U+10C8E", "U+10C8F", "U+10C90", "U+10C91",
      "U+10C92", "U+10C93", "U+10C94", "U+10C95", "U+10C96", "U+10C97", "U+10C98", "U+10C99",
      "U+10C9A", "U+10C9B", "U+10C9C", "U+10C9D", "U+10C9E", "U+10C9F", "U+10CA0", "U+10CA1",
      "U+10CA2", "U+10CA3", "U+10CA4", "U+10CA5", "U+10CA6", "U+10CA7", "U+10CA8", "U+10CA9",
      "U+10CAA", "U+10CAB", "U+10CAC", "U+10CAD", "U+10CAE", "U+10CAF", "U+10CB0", "U+10CB1",
      "U+10CB2", "U+118A0", "U+118A1", "U+118A2", "U+118A3", "U+118A4", "U+118A5", "U+118A6",
      "U+118A7", "U+118A8", "U+118A9", "U+118AA", "U+118AB", "U+118AC", "U+118AD", "U+118AE",
      "U+118AF", "U+118B0", "U+118B1", "U+118B2", "U+118B3", "U+118B4", "U+118B5", "U+118B6",
      "U+118B7", "U+118B8", "U+118B9", "U+118BA", "U+118BB", "U+118BC", "U+118BD", "U+118BE",
      "U+118BF", "U+16E40", "U+16E41", "U+16E42", "U+16E43", "U+16E44", "U+16E45", "U+16E46",
      "U+16E47", "U+16E48", "U+16E49", "U+16E4A", "U+16E4B", "U+16E4C", "U+16E4D", "U+16E4E",
      "U+16E4F", "U+16E50", "U+16E51", "U+16E52", "U+16E53", "U+16E54", "U+16E55", "U+16E56",
      "U+16E57", "U+16E58", "U+16E59", "U+16E5A", "U+16E5B", "U+16E5C", "U+16E5D", "U+16E5E",
      "U+16E5F", "U+1D400", "U+1D401", "U+1D402", "U+1D403", "U+1D404", "U+1D405", "U+1D406",
      "U+1D407", "U+1D408", "U+1D409", "U+1D40A", "U+1D40B", "U+1D40C", "U+1D40D", "U+1D40E",
      "U+1D40F", "U+1D410", "U+1D411", "U+1D412", "U+1D413", "U+1D414", "U+1D415", "U+1D416",
      "U+1D417", "U+1D418", "U+1D419", "U+1D434", "U+1D435", "U+1D436", "U+1D437", "U+1D438",
      "U+1D439", "U+1D43A", "U+1D43B", "U+1D43C", "U+1D43D", "U+1D43E", "U+1D43F", "U+1D440",
      "U+1D441", "U+1D442", "U+1D443", "U+1D444", "U+1D445", "U+1D446", "U+1D447", "U+1D448",
      "U+1D449", "U+1D44A", "U+1D44B", "U+1D44C", "U+1D44D", "U+1D468", "U+1D469", "U+1D46A",
      "U+1D46B", "U+1D46C", "U+1D46D", "U+1D46E", "U+1D46F", "U+1D470", "U+1D471", "U+1D472",
      "U+1D473", "U+1D474", "U+1D475", "U+1D476", "U+1D477", "U+1D478", "U+1D479", "U+1D47A",
      "U+1D47B", "U+1D47C", "U+1D47D", "U+1D47E", "U+1D47F", "U+1D480", "U+1D481", "U+1D49C",
      "U+1D49E", "U+1D49F", "U+1D4A2", "U+1D4A5", "U+1D4A6", "U+1D4A9", "U+1D4AA", "U+1D4AB",
      "U+1D4AC", "U+1D4AE", "U+1D4AF", "U+1D4B0", "U+1D4B1", "U+1D4B2", "U+1D4B3", "U+1D4B4",
      "U+1D4B5", "U+1D4D0", "U+1D4D1", "U+1D4D2", "U+1D4D3", "U+1D4D4", "U+1D4D5", "U+1D4D6",
      "U+1D4D7", "U+1D4D8", "U+1D4D9", "U+1D4DA", "U+1D4DB", "U+1D4DC", "U+1D4DD", "U+1D4DE",
      "U+1D4DF", "U+1D4E0", "U+1D4E1", "U+1D4E2", "U+1D4E3", "U+1D4E4", "U+1D4E5", "U+1D4E6",
      "U+1D4E7", "U+1D4E8", "U+1D4E9", "U+1D504", "U+1D505", "U+1D507", "U+1D508", "U+1D509",
      "U+1D50A", "U+1D50D", "U+1D50E", "U+1D50F", "U+1D510", "U+1D511", "U+1D512", "U+1D513",
      "U+1D514", "U+1D516", "U+1D517", "U+1D518", "U+1D519", "U+1D51A", "U+1D51B", "U+1D51C",
      "U+1D538", "U+1D539", "U+1D53B", "U+1D53C", "U+1D53D", "U+1D53E", "U+1D540", "U+1D541",
      "U+1D542", "U+1D543", "U+1D544", "U+1D546", "U+1D54A", "U+1D54B", "U+1D54C", "U+1D54D",
      "U+1D54E", "U+1D54F", "U+1D550", "U+1D56C", "U+1D56D", "U+1D56E", "U+1D56F", "U+1D570",
      "U+1D571", "U+1D572", "U+1D573", "U+1D574", "U+1D575", "U+1D576", "U+1D577", "U+1D578",
      "U+1D579", "U+1D57A", "U+1D57B", "U+1D57C", "U+1D57D", "U+1D57E", "U+1D57F", "U+1D580",
      "U+1D581", "U+1D582", "U+1D583", "U+1D584", "U+1D585", "U+1D5A0", "U+1D5A1", "U+1D5A2",
      "U+1D5A3", "U+1D5A4", "U+1D5A5", "U+1D5A6", "U+1D5A7", "U+1D5A8", "U+1D5A9", "U+1D5AA",
      "U+1D5AB", "U+1D5AC", "U+1D5AD", "U+1D5AE", "U+1D5AF", "U+1D5B0", "U+1D5B1", "U+1D5B2",
      "U+1D5B3", "U+1D5B4", "U+1D5B5", "U+1D5B6", "U+1D5B7", "U+1D5B8", "U+1D5B9", "U+1D5D4",
      "U+1D5D5", "U+1D5D6", "U+1D5D7", "U+1D5D8", "U+1D5D9", "U+1D5DA", "U+1D5DB", "U+1D5DC",
      "U+1D5DD", "U+1D5DE", "U+1D5DF", "U+1D5E0", "U+1D5E1", "U+1D5E2", "U+1D5E3", "U+1D5E4",
      "U+1D5E5", "U+1D5E6", "U+1D5E7", "U+1D5E8", "U+1D5E9", "U+1D5EA", "U+1D5EB", "U+1D5EC",
      "U+1D5ED", "U+1D608", "U+1D609", "U+1D60A", "U+1D60B", "U+1D60C", "U+1D60D", "U+1D60E",
      "U+1D60F", "U+1D610", "U+1D611", "U+1D612", "U+1D613", "U+1D614", "U+1D615", "U+1D616",
      "U+1D617", "U+1D618", "U+1D619", "U+1D61A", "U+1D61B", "U+1D61C", "U+1D61D", "U+1D61E",
      "U+1D61F", "U+1D620", "U+1D621", "U+1D63C", "U+1D63D", "U+1D63E", "U+1D63F", "U+1D640",
      "U+1D641", "U+1D642", "U+1D643", "U+1D644", "U+1D645", "U+1D646", "U+1D647", "U+1D648",
      "U+1D649", "U+1D64A", "U+1D64B", "U+1D64C", "U+1D64D", "U+1D64E", "U+1D64F", "U+1D650",
      "U+1D651", "U+1D652", "U+1D653", "U+1D654", "U+1D655", "U+1D670", "U+1D671", "U+1D672",
      "U+1D673", "U+1D674", "U+1D675", "U+1D676", "U+1D677", "U+1D678", "U+1D679", "U+1D67A",
      "U+1D67B", "U+1D67C", "U+1D67D", "U+1D67E", "U+1D67F", "U+1D680", "U+1D681", "U+1D682",
      "U+1D683", "U+1D684", "U+1D685", "U+1D686", "U+1D687", "U+1D688", "U+1D689", "U+1D6A8",
      "U+1D6A9", "U+1D6AA", "U+1D6AB", "U+1D6AC", "U+1D6AD", "U+1D6AE", "U+1D6AF", "U+1D6B0",
      "U+1D6B1", "U+1D6B2", "U+1D6B3", "U+1D6B4", "U+1D6B5", "U+1D6B6", "U+1D6B7", "U+1D6B8",
      "U+1D6B9", "U+1D6BA", "U+1D6BB", "U+1D6BC", "U+1D6BD", "U+1D6BE", "U+1D6BF", "U+1D6C0",
      "U+1D6E2", "U+1D6E3", "U+1D6E4", "U+1D6E5", "U+1D6E6", "U+1D6E7", "U+1D6E8", "U+1D6E9",
      "U+1D6EA", "U+1D6EB", "U+1D6EC", "U+1D6ED", "U+1D6EE", "U+1D6EF", "U+1D6F0", "U+1D6F1",
      "U+1D6F2", "U+1D6F3", "U+1D6F4", "U+1D6F5", "U+1D6F6", "U+1D6F7", "U+1D6F8", "U+1D6F9",
      "U+1D6FA", "U+1D71C", "U+1D71D", "U+1D71E", "U+1D71F", "U+1D720", "U+1D721", "U+1D722",
      "U+1D723", "U+1D724", "U+1D725", "U+1D726", "U+1D727", "U+1D728", "U+1D729", "U+1D72A",
      "U+1D72B", "U+1D72C", "U+1D72D", "U+1D72E", "U+1D72F", "U+1D730", "U+1D731", "U+1D732",
      "U+1D733", "U+1D734", "U+1D756", "U+1D757", "U+1D758", "U+1D759", "U+1D75A", "U+1D75B",
      "U+1D75C", "U+1D75D", "U+1D75E", "U+1D75F", "U+1D760", "U+1D761", "U+1D762", "U+1D763",
      "U+1D764", "U+1D765", "U+1D766", "U+1D767", "U+1D768", "U+1D769", "U+1D76A", "U+1D76B",
      "U+1D76C", "U+1D76D", "U+1D76E", "U+1D790", "U+1D791", "U+1D792", "U+1D793", "U+1D794",
      "U+1D795", "U+1D796", "U+1D797", "U+1D798", "U+1D799", "U+1D79A", "U+1D79B", "U+1D79C",
      "U+1D79D", "U+1D79E", "U+1D79F", "U+1D7A0", "U+1D7A1", "U+1D7A2", "U+1D7A3", "U+1D7A4",
      "U+1D7A5", "U+1D7A6", "U+1D7A7", "U+1D7A8", "U+1D7CA", "U+1E900", "U+1E901", "U+1E902",
      "U+1E903", "U+1E904", "U+1E905", "U+1E906", "U+1E907", "U+1E908", "U+1E909", "U+1E90A",
      "U+1E90B", "U+1E90C", "U+1E90D", "U+1E90E", "U+1E90F", "U+1E910", "U+1E911", "U+1E912",
      "U+1E913", "U+1E914", "U+1E915", "U+1E916", "U+1E917", "U+1E918", "U+1E919", "U+1E91A",
      "U+1E91B", "U+1E91C", "U+1E91D", "U+1E91E", "U+1E91F", "U+1E920", "U+1E921", "U+1F130",
      "U+1F131", "U+1F132", "U+1F133", "U+1F134", "U+1F135", "U+1F136", "U+1F137", "U+1F138",
      "U+1F139", "U+1F13A", "U+1F13B", "U+1F13C", "U+1F13D", "U+1F13E", "U+1F13F", "U+1F140",
      "U+1F141", "U+1F142", "U+1F143", "U+1F144", "U+1F145", "U+1F146", "U+1F147", "U+1F148",
      "U+1F149", "U+1F150", "U+1F151", "U+1F152", "U+1F153", "U+1F154", "U+1F155", "U+1F156",
      "U+1F157", "U+1F158", "U+1F159", "U+1F15A", "U+1F15B", "U+1F15C", "U+1F15D", "U+1F15E",
      "U+1F15F", "U+1F160", "U+1F161", "U+1F162", "U+1F163", "U+1F164", "U+1F165", "U+1F166",
      "U+1F167", "U+1F168", "U+1F169", "U+1F170", "U+1F171", "U+1F172", "U+1F173", "U+1F174",
      "U+1F175", "U+1F176", "U+1F177", "U+1F178", "U+1F179", "U+1F17A", "U+1F17B", "U+1F17C",
      "U+1F17D", "U+1F17E", "U+1F17F", "U+1F180", "U+1F181", "U+1F182", "U+1F183", "U+1F184",
      "U+1F185", "U+1F186", "U+1F187", "U+1F188", "U+1F189"
    }

\* str.isupper() of one character
isupper(ch) == ch \in uppercase

\* line[a:b], with 0-based a and b as in Python
Slice(line, a, b) == SubSeq(line, a + 1, b)

RECURSIVE skip_whitespace(_, _)
\* while state.c < len(line) and line[state.c] in whitespace: state.c += 1
skip_whitespace(line, c) ==
    IF c < Len(line) /\ line[c + 1] \in whitespace
    THEN skip_whitespace(line, c + 1)
    ELSE c

\* if state.c < len(line) and line[state.c] == '#': state.c = len(line)
skip_comment(line, c) ==
    IF c < Len(line) /\ line[c + 1] = "#" THEN Len(line) ELSE c

RECURSIVE word_end(_, _)
\* while i < len(line) and line[i] not in non_word: i += 1
word_end(line, i) ==
    IF i < Len(line) /\ line[i + 1] \notin non_word
    THEN word_end(line, i + 1)
    ELSE i

\* Returns [tok, c]: the token and the column the state is left at.
next_token(line, r, c0, filename) ==
    LET c == skip_comment(line, skip_whitespace(line, c0))
    IN IF c = Len(line) THEN [tok |-> NewLine(<<"\n">>, filename, r, c), c |-> c]
       ELSE IF line[c + 1] \in symbols
       THEN [tok |-> Symbol(<<line[c + 1]>>, filename, r, c), c |-> c + 1]
       ELSE LET i == word_end(line, c)
                word == Slice(line, c, i)
            IN [tok |-> IF isupper(word[1])
                        THEN Variable(word, filename, r, c)
                        ELSE Atom(word, filename, r, c),
                c |-> i]

RECURSIVE tokenize_line(_, _, _, _)
\* while state.c < len(line): tokens.append(next_token(line, state, filename))
tokenize_line(line, r, c, filename) ==
    IF c < Len(line)
    THEN LET n == next_token(line, r, c, filename)
         IN <<n.tok>> \o tokenize_line(line, r, n.c, filename)
    ELSE <<>>

RECURSIVE tokenize_lines(_, _, _)
\* for line in f, from row r on, then the final NewLine
tokenize_lines(f, r, filename) ==
    IF r < Len(f)
    THEN tokenize_line(f[r + 1], r, 0, filename) \o tokenize_lines(f, r + 1, filename)
    ELSE <<NewLine(<<"\n">>, filename, r, 0)>>

\* f is the stream as the list of its lines
tokenize(f, filename) == tokenize_lines(f, 0, filename)

-----------------------------------------------------------------------------
(* Syntax errors *)

NoError == [msg |-> <<>>, file |-> <<>>, line |-> 0, col |-> 0]

SyntaxError(msg, file, line, col) ==
    [msg |-> msg, file |-> file, line |-> line, col |-> col]

UnexpectedEndOfLine ==
    <<"U", "n", "e", "x", "p", "e", "c", "t", "e", "d", " ",
      "e", "n", "d", " ", "o", "f", " ", "l", "i", "n", "e">>

UnexpectedToken ==
    <<"U", "n", "e", "x", "p", "e", "c", "t", "e", "d", " ",
      "t", "o", "k", "e", "n", " ", "'">>

ParserError ==
    <<"P", "a", "r", "s", "e", "r", " ", "e", "r", "r", "o", "r">>

unexpected(tok) ==
    IF tok.kind = "NewLine"
    THEN SyntaxError(UnexpectedEndOfLine, tok.file, tok.line, tok.col)
    ELSE SyntaxError(UnexpectedToken \o tok.val \o <<"'">>, tok.file, tok.line, tok.col)

RECURSIVE IntStr(_)
\* the decimal rendering that str.format gives a non-negative int
IntStr(n) ==
    LET digit == <<"0", "1", "2", "3", "4", "5", "6", "7", "8", "9">>[(n % 10) + 1]
    IN IF n < 10 THEN <<digit>> ELSE IntStr(n \div 10) \o <<digit>>

\* SyntaxError.__str__
err_str(err) ==
    err.msg \o <<" ", "a", "t", " ">> \o IntStr(err.line) \o <<":">> \o IntStr(err.col)
            \o <<" ", "i", "n", " ", "'">> \o err.file \o <<"'">>

-----------------------------------------------------------------------------
(* Parser *)

LEFT == 0
RIGHT == 1
INPUT == 2

Raise(err) == [ok |-> FALSE, term |-> None, i |-> 0, err |-> err]

Return(term, i) == [ok |-> TRUE, term |-> term, i |-> i, err |-> NoError]

\* a parser that never unwraps a top-level group of one child
parse_finish_no_unwrap(tokens_, i, chain, group) ==
    IF Len(chain) > 0 \/ Len(group) = 0 THEN Raise(unexpected(tokens_[Len(tokens_)]))
    ELSE Return(Term(group, GROUP), i)

\* a parser that does not look at the stack when the loop has ended
parse_finish_unchecked(tokens_, i, chain, group) ==
    IF Len(group) = 0 THEN Raise(unexpected(tokens_[Len(tokens_)]))
    ELSE IF Len(group) = 1 THEN Return(group[1], i)
    ELSE Return(Term(group, GROUP), i)

\* The statements after the loop.
parse_finish(tokens_, i, chain, group) ==
    IF Len(chain) > 0 \/ Len(group) = 0 THEN Raise(unexpected(tokens_[Len(tokens_)]))
    ELSE IF Len(group) = 1 THEN Return(group[1], i)
    ELSE Return(Term(group, GROUP), i)

RECURSIVE parse_loop(_, _, _, _, _)
\* The while loop of parse_term.  `group` is group.val, the children of the
\* group being filled; `chain` lists, outermost first, the children that each
\* enclosing group had when '(' opened the next one.  (In the code the open
\* group is already the last child of its parent; here it is appended when
\* ')' closes it, and nothing reads the parent in between.)
parse_loop(tokens_, type, i, chain, group) ==
    IF ~(i < Len(tokens_)) THEN parse_finish(tokens_, i, chain, group)
    ELSE LET tok == tokens_[i + 1] IN
        IF tok.kind = "Atom" THEN
            parse_loop(tokens_, type, i + 1, chain, Append(group, Term(tok.val, ATOM)))
        ELSE IF type = LEFT /\ Len(group) = 0 THEN
            Raise(unexpected(tok))
        ELSE IF tok.kind = "Variable" THEN
            IF type = INPUT THEN Raise(unexpected(tok))
            ELSE parse_loop(tokens_, type, i + 1, chain, Append(group, Term(tok.val, VAR)))
        ELSE IF tok.kind = "NewLine" THEN
            IF Len(chain) = 0 /\ type # LEFT THEN parse_finish(tokens_, i, chain, group)
            ELSE IF Len(chain) = 0 THEN Raise(unexpected(tok))
            ELSE parse_loop(tokens_, type, i + 1, chain, group)
        ELSE IF tok.val = <<"=">> THEN
            IF Len(chain) = 0 /\ type = LEFT THEN parse_finish(tokens_, i, chain, group)
            ELSE Raise(unexpected(tok))
        ELSE IF tok.val = <<"(">> THEN
            parse_loop(tokens_, type, i + 1, Append(chain, group), <<>>)
        ELSE IF tok.val = <<")">> THEN
            IF Len(chain) = 0 \/ Len(group) = 0 THEN Raise(unexpected(tok))
            ELSE parse_loop(tokens_, type, i + 1, SubSeq(chain, 1, Len(chain) - 1),
                            Append(chain[Len(chain)], Term(group, GROUP)))
        ELSE Raise(SyntaxError(ParserError, <<>>, 0, 0))

\* Returns [ok, term, i, err]: the pair (term, i), or the error raised.
parse_term(tokens_, type, i) == parse_loop(tokens_, type, i, <<>>, <<>>)

RECURSIVE skip_newlines(_, _)
\* while i < len(tokens) and isinstance(tokens[i], NewLine): i += 1
skip_newlines(tokens_, i) ==
    IF i < Len(tokens_) /\ tokens_[i + 1].kind = "NewLine"
    THEN skip_newlines(tokens_, i + 1)
    ELSE i

\* a parser that files a rule under the name of the last child of its lhs
add_rule_last_child(rules_, lhs, rhs) ==
    LET key == IF is_atom(lhs) THEN lhs.val ELSE lhs.kids[Len(lhs.kids)].val
    IN [k \in DOMAIN rules_ \cup {key} |->
            IF k = key
            THEN (IF key \in DOMAIN rules_ THEN Append(rules_[key], <<lhs, rhs>>)
                  ELSE <<<<lhs, rhs>>>>)
            ELSE rules_[k]]

\* rules[key].append((lhs, rhs)), or rules[key] = [(lhs, rhs)]
add_rule(rules_, lhs, rhs) ==
    LET key == IF is_atom(lhs) THEN lhs.val ELSE lhs.kids[1].val
    IN [k \in DOMAIN rules_ \cup {key} |->
            IF k = key
            THEN (IF key \in DOMAIN rules_ THEN Append(rules_[key], <<lhs, rhs>>)
                  ELSE <<<<lhs, rhs>>>>)
            ELSE rules_[k]]

RECURSIVE parse_rules_from(_, _, _)
\* The while loop of parse_rules.  Returns [rules, err]: the rule set as the
\* call left it, and the SyntaxError that ended it (NoError on return).
parse_rules_from(tokens_, rules_, i0) ==
    LET i == skip_newlines(tokens_, i0)
    IN IF ~(i0 < Len(tokens_)) \/ i = Len(tokens_) THEN [rules |-> rules_, err |-> NoError]
       ELSE LET l == parse_term(tokens_, LEFT, i)
            IN IF ~l.ok THEN [rules |-> rules_, err |-> l.err]
               ELSE LET r == parse_term(tokens_, RIGHT, l.i + 1)
                    IN IF ~r.ok THEN [rules |-> rules_, err |-> r.err]
                       ELSE parse_rules_from(tokens_, add_rule(rules_, l.term, r.term), r.i + 1)

parse_rules(tokens_, rules_) == parse_rules_from(tokens_, rules_, 0)

-----------------------------------------------------------------------------
(* Driver: full_reduce.  The queue holds references to nodes of the tree   *)
(* under initial_term; a node is named by its path, the 1-based child      *)
(* indices from the root.  Every term a rewrite installs is a fresh clone  *)
(* or a subtree the root no longer holds elsewhere, so the tree has no     *)
(* shared nodes and a path names exactly one Term object.                  *)

RECURSIVE node_at(_, _)
node_at(root, path) ==
    IF Len(path) = 0 THEN root ELSE node_at(root.kids[Head(path)], Tail(path))

\* a driver that replaces the whole term by the result of the rewrite
assign_at_root(root, path, res) == res

RECURSIVE assign(_, _, _)
\* term.val = res.val; term.type = res.type, for the node at `path`
assign(root, path, res) ==
    IF Len(path) = 0 THEN res
    ELSE [root EXCEPT !.kids[Head(path)] = assign(@, Tail(path), res)]

\* a driver that enqueues the arguments only, never the head
put_children_args_only(q, path, term) ==
    q \o [k \in 1..(Len(term.kids) - 1) |-> Append(path, k + 1)]

\* a driver whose queue is a stack: the children go in front
put_children_in_front(q, path, term) ==
    [k \in 1..Len(term.kids) |-> Append(path, k)] \o q

\* for child in term.val: queue.put(child)
put_children(q, path, term) ==
    q \o [k \in 1..Len(term.kids) |-> Append(path, k)]

RECURSIVE TermSize(_)
TermSize(term) ==
    IF is_group(term)
    THEN LET sizes == [k \in 1..Len(term.kids) |-> TermSize(term.kids[k])]
             Sum[k \in 0..Len(sizes)] == IF k = 0 THEN 1 ELSE Sum[k - 1] + sizes[k]
         IN Sum[Len(sizes)]
    ELSE 1

\* The largest root term that the model lets a rewrite build.
MaxTermSize == 32

\* One iteration of the while loop of full_reduce.
full_reduce_step ==
    /\ pc = "reduce"
    /\ queue # <<>>
    /\ \E path \in {Head(queue)} :
       \E term \in {node_at(initial_term, path)} :
       \E r \in {reduce(term, rules)} :
          /\ out' = out \o r.printed
          /\ IF r.res = KeyError THEN
                 /\ pc' = "crash"
                 /\ UNCHANGED <<initial_term, queue>>
             ELSE IF r.res = None THEN
                 /\ queue' = IF is_group(term)
                             THEN put_children(Tail(queue), path, term)
                             ELSE Tail(queue)
                 /\ UNCHANGED <<initial_term, pc>>
             ELSE
                 \E root \in {assign(initial_term, path, r.res)} :
                     /\ TermSize(root) <= MaxTermSize
                     /\ initial_term' = root
                     /\ queue' = <<<<>>>>
                     /\ UNCHANGED pc
    /\ UNCHANGED <<args, nloaded, rules, stdin, inp, parsing, matching, objects>>

-----------------------------------------------------------------------------
(* Library loading and the read-eval-print loop *)

\* the file math.coral
math_coral ==
    << <<"z", "e", "r", "o", " ", "=", " ", "0", "\n">>,
       <<"o", "n", "e", " ", "=", " ", "s", " ", "0", "\n">>,
       <<"t", "w", "o", " ", "=", " ", "s", " ", "(", "s", " ", "0", ")", "\n">>,
       <<"t", "h", "r", "e", "e", " ", "=", " ", "s", " ", "(", "s", " ", "(", "s", " ", "0", ")", ")", "\n">>,
       <<"\n">>,
       <<"+", " ", "A", " ", "0", " ", "=", " ", "A", "\n">>,
       <<"+", " ", "A", " ", "(", "s", " ", "B", ")", " ", "=", " ", "+", " ", "(", "s", " ", "A", ")", " ", "B", "\n">>,
       <<"\n">>,
       <<"*", " ", "A", " ", "0", " ", "=", " ", "0", "\n">>,
       <<"*", " ", "A", " ", "(", "s", " ", "B", ")", " ", "=", " ", "+", " ", "A", " ", "(", "*", " ", "A", " ", "B", ")", "\n">> >>

\* the file order.coral
order_coral ==
    << <<"f", " ", "a", " ", "=", " ", "o", "n", "e", "\n">>,
       <<"f", " ", "A", " ", "=", " ", "s", " ", "A", "\n">>,
       <<"f", " ", "a", " ", "=", " ", "t", "h", "r", "e", "e", "\n">>,
       <<"z", "e", "r", "o", " ", "=", " ", "X", "\n">>,
       <<"e", "q", " ", "A", " ", "A", " ", "=", " ", "t", "r", "u", "e", "\n">>,
       <<"g", " ", "A", " ", "=", " ", "B", "\n">> >>

\* the file more.coral
more_coral ==
    << <<"#", " ", "r", "u", "l", "e", "s", " ", "a", "d", "d", "e", "d", " ", "t", "o", " ", "e", "a", "r", "l", "i", "e", "r", " ", "k", "e", "y", "s", "\n">>,
       <<"f", " ", "A", " ", "=", " ", "t", "w", "o", "\n">>,
       <<"z", "e", "r", "o", " ", "=", " ", "z", "\n">>,
       <<"p", "r", "i", "n", "t", " ", "A", " ", "=", " ", "q", "\n">>,
       <<"p", "r", "i", "n", "t", " ", "=", " ", "s", "a", "y", "\n">>,
       <<"i", "n", "c", " ", "=", " ", "+", " ", "o", "n", "e", "\n">>,
       <<"g", "r", "o", "w", " ", "=", " ", "w", " ", "g", "r", "o", "w", " ", "g", "r", "o", "w">> >>

\* the file bad.coral
bad_coral ==
    << <<"k", " ", "=", " ", "a", "\n">>,
       <<"k", " ", "b", " ", "=", " ", "c", "\n">>,
       <<"(", "k", ")", " ", "=", " ", "d", "\n">>,
       <<"k", " ", "=", " ", "e", "\n">> >>

\* the names as typed on the command line
math_arg == <<"m", "a", "t", "h">>
order_arg == <<"o", "r", "d", "e", "r">>
more_arg == <<"m", "o", "r", "e", ".", "c", "o", "r", "a", "l">>
bad_arg == <<"b", "a", "d">>

\* open(filename).readlines()
ReadFile(filename) ==
    CASE filename = <<"m", "a", "t", "h", ".", "c", "o", "r", "a", "l">> -> math_coral
      [] filename = <<"o", "r", "d", "e", "r", ".", "c", "o", "r", "a", "l">> -> order_coral
      [] filename = <<"m", "o", "r", "e", ".", "c", "o", "r", "a", "l">> -> more_coral
      [] filename = <<"b", "a", "d", ".", "c", "o", "r", "a", "l">> -> bad_coral

dot_coral == <<".", "c", "o", "r", "a", "l">>

endswith(s, suffix) ==
    Len(s) >= Len(suffix) /\ SubSeq(s, Len(s) - Len(suffix) + 1, Len(s)) = suffix

RECURSIVE StringIO(_)
\* The lines that iterating StringIO(s) yields: each ends with its "\n",
\* except a last one that has none.
StringIO(s) ==
    IF Len(s) = 0 THEN <<>>
    ELSE LET nl == {k \in 1..Len(s) : s[k] = "\n"}
         IN IF nl = {} THEN <<s>>
            ELSE LET k == CHOOSE m \in nl : \A n \in nl : m <= n
                 IN <<SubSeq(s, 1, k)>> \o StringIO(SubSeq(s, k + 1, Len(s)))

\* a load that gives the caller's rule set back as it was when the parse fails
load_atomic(name, rules_) ==
    LET filename == IF ~endswith(name, dot_coral) THEN name \o dot_coral ELSE name
        p == parse_rules(tokenize(ReadFile(filename), filename), rules_)
    IN IF p.err = NoError
       THEN [rules |-> p.rules, printed |-> <<>>, ret |-> TRUE]
       ELSE [rules |-> rules_, printed |-> print_line(err_str(p.err)), ret |-> FALSE]

\* Returns [rules, printed, ret]: the caller's rule set after the call, what
\* the call printed, and whether it returned the rule set (TRUE) or None
\* (FALSE).  ReadFile, defined with the sessions below, is the file system.
load(name, rules_) ==
    LET filename == IF ~endswith(name, dot_coral) THEN name \o dot_coral ELSE name
        p == parse_rules(tokenize(ReadFile(filename), filename), rules_)
    IN IF p.err = NoError
       THEN [rules |-> p.rules, printed |-> <<>>, ret |-> TRUE]
       ELSE [rules |-> p.rules, printed |-> print_line(err_str(p.err)), ret |-> FALSE]

RECURSIVE load_all(_, _, _)
\* for name in args: load(name, rules), from the k-th name on
load_all(files, k, acc) ==
    IF k > Len(files) THEN acc
    ELSE LET l == load(files[k], acc.rules)
         IN load_all(files, k + 1, [rules |-> l.rules, printed |-> acc.printed \o l.printed])

stdin_name == <<"<", "s", "t", "d", "i", "n", ">">>

prompt == <<">", " ">>

exit_words == {<<"e", "x", "i", "t">>, <<"q", "u", "i", "t">>}

reload_word == <<"r", "e", "l", "o", "a", "d">>

\* One iteration of the start-up loop `for name in args: load(name, rules)`.
main_load ==
    /\ pc = "load"
    /\ nloaded < Len(args)
    /\ LET l == load(args[nloaded + 1], rules)
       IN /\ rules' = l.rules
          /\ out' = out \o l.printed
    /\ nloaded' = nloaded + 1
    /\ pc' = IF nloaded + 1 = Len(args) THEN "prompt" ELSE "load"
    /\ UNCHANGED <<args, stdin, inp, initial_term, queue, parsing, matching, objects>>

\* One iteration of the while loop of main, up to the call of full_reduce.
main_input ==
    /\ pc = "prompt"
    /\ IF stdin = <<>> THEN
           \* input() raises EOFError
           /\ out' = out \o prompt
           /\ pc' = "crash"
           /\ UNCHANGED <<rules, stdin, inp, initial_term, queue>>
       ELSE LET line == Head(stdin) IN
           /\ stdin' = Tail(stdin)
           /\ inp' = line
           /\ IF line \in exit_words THEN
                  /\ out' = out \o prompt
                  /\ pc' = "exit"
                  /\ UNCHANGED <<rules, initial_term, queue>>
              ELSE LET re == IF line = reload_word
                             THEN load_all(args, 1, [rules |-> NoRules, printed |-> <<>>])
                             ELSE [rules |-> rules, printed |-> <<>>]
                       p == parse_term(tokenize(StringIO(line), stdin_name), INPUT, 0)
                   IN /\ rules' = re.rules
                      /\ IF p.ok THEN
                             /\ out' = out \o prompt \o re.printed
                             /\ initial_term' = p.term
                             /\ queue' = <<<<>>>>
                             /\ pc' = "reduce"
                         ELSE
                             /\ out' = out \o prompt \o re.printed \o print_line(err_str(p.err))
                             /\ pc' = "prompt"
                             /\ UNCHANGED <<initial_term, queue>>
    /\ UNCHANGED <<args, nloaded, parsing, matching, objects>>

\* full_reduce returns when the queue is empty, and main prints the term.
main_print ==
    /\ pc = "reduce"
    /\ queue = <<>>
    /\ out' = out \o print_line(str(initial_term))
    /\ pc' = "prompt"
    /\ UNCHANGED <<args, nloaded, rules, stdin, inp, initial_term, queue,
                   parsing, matching, objects>>

-----------------------------------------------------------------------------
(* Sessions: the library files on the command line and the lines typed *)

\* the command lines a session may start from
CommandLines ==
    { <<>>,
      <<math_arg>>,
      <<order_arg>>,
      <<more_arg>>,
      <<bad_arg>>,
      <<order_arg, more_arg>>,
      <<more_arg, order_arg>>,
      <<bad_arg, order_arg>>,
      <<bad_arg, bad_arg>>,
      <<math_arg, more_arg>> }

\* the lines a session may type
Inputs ==
    { <<"+", " ", "t", "h", "r", "e", "e", " ", "o", "n", "e">>,
      <<"z", "e", "r", "o">>,
      <<"p", "r", "i", "n", "t", " ", "(", "p", "r", "i", "n", "t", " ", "a", ")">>,
      <<"f", " ", "a">>,
      <<"e", "q", " ", "x", " ", "x">>,
      <<"g", " ", "a">>,
      <<"i", "n", "c", " ", "t", "w", "o">>,
      <<"z", "e", "r", "o", " ", "a">>,
      <<"p", "r", "i", "n", "t", " ", "a", " ", "b">>,
      <<"+", " ", "A", " ", "0">>,
      <<"g", "r", "o", "w">>,
      <<"p", "r", "i", "n", "t", " ", "(", "s", " ", "0", ")">>,
      <<"k", " ", "b">>,
      <<"w", " ", "(", "w", " ", "z", "e", "r", "o", ")", " ", "z", "e", "r", "o">>,
      <<"r", "e", "l", "o", "a", "d">>,
      <<"e", "x", "i", "t">> }

\* the queries of the math.coral example
MathInputs ==
    { <<"+", " ", "t", "h", "r", "e", "e", " ", "o", "n", "e">>,
      <<"*", " ", "t", "w", "o", " ", "t", "h", "r", "e", "e">>,
      <<"*", " ", "t", "w", "o", " ", "z", "e", "r", "o">>,
      <<"z", "e", "r", "o">>,
      <<"p", "r", "i", "n", "t", " ", "(", "s", " ", "0", ")">> }
\* The most lines typed in a session.
MaxStdin == 1

SeqsUpTo(S, n) == UNION {[1..k -> S] : k \in 0..n}

\* A session that has done nothing yet; the harness variables are idle.
IdleParsing ==
    /\ text = <<>>
    /\ mode = INPUT
    /\ tokens = <<>>
    /\ parsed = Raise(NoError)
    /\ rendered = None

IdleMatching ==
    /\ pattern = None
    /\ subject = None
    /\ table = EmptyTable
    /\ matched = [ok |-> FALSE, table |-> EmptyTable]

\* no Term object is kept by address
IdleObjects ==
    /\ heap = <<>>
    /\ hrules = [key \in {} |-> <<>>]
    /\ hterm = 0
    /\ hqueue = <<>>

\* the session variables of a harness that runs no session
NoSession(at) ==
    /\ args = <<>>
    /\ stdin = <<>>
    /\ nloaded = 0
    /\ rules = NoRules
    /\ inp = <<>>
    /\ out = <<>>
    /\ pc = at
    /\ initial_term = None
    /\ queue = <<>>

StartSession(files, typed) ==
    /\ args = files
    /\ stdin = typed
    /\ nloaded = 0
    /\ rules = NoRules
    /\ inp = <<>>
    /\ out = <<>>
    /\ pc = IF Len(files) = 0 THEN "prompt" ELSE "load"
    /\ initial_term = None
    /\ queue = <<>>

Init ==
    /\ \E files \in CommandLines, typed \in SeqsUpTo(Inputs, MaxStdin) :
           StartSession(files, typed)
    /\ IdleParsing
    /\ IdleMatching
    /\ IdleObjects

Next ==
    \/ main_load
    \/ main_input
    \/ full_reduce_step
    \/ main_print

Spec == Init /\ [][Next]_vars

\* The session of the math.coral example of the module docstring.
InitMath ==
    /\ \E q \in MathInputs : StartSession(<<math_arg>>, <<q>>)
    /\ IdleParsing
    /\ IdleMatching
    /\ IdleObjects

SpecMath == InitMath /\ [][Next]_vars

\* full_reduce is a sequential loop: it runs its next iteration whenever it
\* has one.
SpecMathLive == SpecMath /\ WF_vars(full_reduce_step)

-----------------------------------------------------------------------------
(* The matcher and the parser on their own: a pattern, a subject and a     *)
(* table are drawn and match is applied; a text is drawn, tokenized, and   *)
(* parse_term is applied in one of its modes.                              *)

\* The most children of an application that is drawn.
MaxKids == 2

\* The longest text handed to the tokenizer, in characters.
MaxTextLen == 4

\* the terms of S, and the applications of 1 to MaxKids of them
Nest(S) ==
    S \cup {Term(children, GROUP) : children \in UNION {[1..n -> S] : n \in 1..MaxKids}}

AtomA == Term(<<"a">>, ATOM)
AtomB == Term(<<"b">>, ATOM)
VarA == Term(<<"A">>, VAR)
VarB == Term(<<"B">>, VAR)

App(children) == Term(children, GROUP)

Word(w) == Term(w, ATOM)

\* eq A A, eq x x, eq x y, + A (s B), + three (s 0), and f x y (an
\* application longer than the pattern f A)
SamplePatterns ==
    { App(<<Word(<<"e", "q">>), VarA, VarA>>),
      App(<<Word(<<"+">>), VarA, App(<<Word(<<"s">>), VarB>>)>>),
      App(<<Word(<<"f">>), VarA>>) }

SampleSubjects ==
    { App(<<Word(<<"e", "q">>), Word(<<"x">>), Word(<<"x">>)>>),
      App(<<Word(<<"e", "q">>), Word(<<"x">>), Word(<<"y">>)>>),
      App(<<Word(<<"+">>), Word(<<"t", "h", "r", "e", "e">>), App(<<Word(<<"s">>), Word(<<"0">>)>>)>>),
      App(<<Word(<<"f">>), Word(<<"x">>), Word(<<"y">>)>>),
      App(<<Word(<<"f">>), VarA>>),
      VarB }

Patterns == Nest({AtomA, AtomB, VarA, VarB}) \cup SamplePatterns

Subjects == Nest({AtomA, AtomB, VarA}) \cup SampleSubjects

Tables ==
    { EmptyTable,
      bind(EmptyTable, <<"A">>, AtomA),
      bind(EmptyTable, <<"A">>, App(<<AtomA, AtomB>>)) }

InitMatch ==
    /\ NoSession("match")
    /\ IdleParsing
    /\ IdleObjects
    /\ pattern \in Patterns
    /\ subject \in Subjects
    /\ table \in Tables
    /\ matched = [ok |-> FALSE, table |-> EmptyTable]

\* match(pattern, subject, table)
run_match ==
    /\ pc = "match"
    /\ matched' = match(pattern, subject, table)
    /\ pc' = "matched"
    /\ UNCHANGED <<args, nloaded, rules, stdin, inp, out, initial_term, queue,
                   parsing, pattern, subject, table, objects>>

NextMatch == run_match

SpecMatch == InitMatch /\ [][NextMatch]_vars

RECURSIVE StringsUpTo(_, _)
\* the strings over the given characters, at most n long
StringsUpTo(chars, n) ==
    IF n = 0 THEN {<<>>}
    ELSE LET shorter == StringsUpTo(chars, n - 1)
         IN shorter \cup {Append(w, c) : w \in shorter, c \in chars}

TextChars == {"a", "A", "(", ")", "=", " ", "\n"}

SampleTexts ==
    { <<"+", " ", "A", " ", "0">>,
      <<"(", "(", "a", " ", "b", ")", ")">>,
      <<"(", "(", "f", " ", "x", ")", " ", "y", ")">>,
      <<"f", " ", "(", "A", " ", "b", ")", " ", "=", " ", "A", "\n">>,
      <<"f", " ", "(", "a", "\n", "B", ")", " ", "=", " ", "B", "\n">>,
      <<"(", "a", "\n", " ", "b", ")", " ", "#", " ", "A", "\n", " ", " ", "B">>,
      <<"\t", "s", "0", " ", "(", "x", "+", ")", "#", "(">>,
      <<"f", " ", "A", " ", "=", " ", "A", "\n", "(", "k", ")", " ", "=", " ", "d", "\n">>,
      <<"k", " ", "=", " ", "a", "\n", "K", " ", "b", " ", "=", " ", "c", "\n", "k", " ", "=", " ", "e">>,
      <<"f", " ", "=", " ", "(", "a", "\n", " ", "b", ")", "\n", "g", " ", "=", " ", "c", "\n">>,
      <<"f", " ", "(", "a", " ", "b", ")", " ", "=", " ", "c">>,
      <<"U+00C9", "a">>,
      <<"U+00E9", "A">>,
      <<"f", " ", "U+1D400", " ", "=", " ", "U+1D400">> }

Texts == StringsUpTo(TextChars, MaxTextLen) \cup SampleTexts

\* (print (print a)), ((f x) y), (f A) and three as a numeral
SampleTerms ==
    { App(<<Word(print_name), App(<<Word(print_name), AtomA>>)>>),
      App(<<App(<<Word(<<"f">>), Word(<<"x">>)>>), Word(<<"y">>)>>),
      App(<<Word(<<"f">>), VarA>>),
      App(<<Word(<<"s">>), App(<<Word(<<"s">>), App(<<Word(<<"s">>), Word(<<"0">>)>>)>>)>>) }

RenderTerms == Nest(Nest({AtomA, Word(<<"b", "+">>)})) \cup SampleTerms

InitParse ==
    /\ NoSession("tokenize")
    /\ IdleMatching
    /\ IdleObjects
    /\ mode \in {LEFT, RIGHT, INPUT}
    /\ \/ rendered = None /\ \E chars \in Texts : text = StringIO(chars)
       \/ rendered \in RenderTerms /\ text = StringIO(str(rendered))
    /\ tokens = <<>>
    /\ parsed = Raise(NoError)

\* tokens = tokenize(StringIO(...), '<stdin>')
run_tokenize ==
    /\ pc = "tokenize"
    /\ tokens' = tokenize(text, stdin_name)
    /\ pc' = "parse"
    /\ UNCHANGED <<args, nloaded, rules, stdin, inp, out, initial_term, queue,
                   text, mode, parsed, rendered, matching, objects>>

\* parse_term(tokens, mode)
run_parse ==
    /\ pc = "parse"
    /\ parsed' = parse_term(tokens, mode, 0)
    /\ pc' = "parsed"
    /\ UNCHANGED <<args, nloaded, rules, stdin, inp, out, initial_term, queue,
                   text, mode, tokens, rendered, matching, objects>>

\* parse_rules(tokens, rules), called on the tokens of a library once and
\* then once more on the rule set that the first call left
run_parse_rules ==
    /\ pc \in {"parse", "loaded"}
    /\ mode = LEFT
    /\ LET p == parse_rules(tokens, rules)
       IN /\ rules' = p.rules
          /\ parsed' = [ok |-> p.err = NoError, term |-> None, i |-> 0, err |-> p.err]
    /\ pc' = IF pc = "parse" THEN "loaded" ELSE "reloaded"
    /\ UNCHANGED <<args, nloaded, stdin, inp, out, initial_term, queue,
                   text, mode, tokens, rendered, matching, objects>>

NextParse ==
    \/ run_tokenize
    \/ run_parse
    \/ run_parse_rules

SpecParse == InitParse /\ [][NextParse]_vars

-----------------------------------------------------------------------------
(* Terms as objects.  Here a Term is an address into `heap`, a sequence of  *)
(* the records [type, val, kids] in which `kids` lists the addresses of the *)
(* children: two references are the same object exactly when they are the  *)
(* same address.  The list that a group keeps in `val` is never changed in  *)
(* place by clone, replace, match, reduce or full_reduce, so that a list is *)
(* represented by the sequence of the addresses it holds.                   *)

NoneRef == 0
KeyErrorRef == -1

\* Term(val, type): a new object
new_Term(h, type, val, kids) ==
    [heap |-> Append(h, [type |-> type, val |-> val, kids |-> kids]),
     id |-> Len(h) + 1]

RECURSIVE deref(_, _)
\* the term that an address stands for, read through the heap
deref(h, id) ==
    [type |-> h[id].type, val |-> h[id].val,
     kids |-> [k \in 1..Len(h[id].kids) |-> deref(h, h[id].kids[k])]]

RECURSIVE store(_, _), store_list(_, _, _, _)
\* the objects that parse_term builds for a term, one per Term(...) call
store(h, term) ==
    IF term.type = GROUP
    THEN LET c == store_list(h, term.kids, 1, <<>>)
         IN new_Term(c.heap, GROUP, <<>>, c.ids)
    ELSE new_Term(h, term.type, term.val, <<>>)

store_list(h, terms, k, acc) ==
    IF k > Len(terms) THEN [heap |-> h, ids |-> acc]
    ELSE LET c == store(h, terms[k])
         IN store_list(c.heap, terms, k + 1, Append(acc, c.id))

\* a clone that returns the very object it was given
obj_clone_alias(h, id) == [heap |-> h, id |-> id]

RECURSIVE obj_clone(_, _), obj_clone_list(_, _, _, _)
\* clone(term)
obj_clone(h, id) ==
    IF h[id].type = ATOM THEN new_Term(h, ATOM, h[id].val, <<>>)
    ELSE IF h[id].type = VAR THEN new_Term(h, VAR, h[id].val, <<>>)
    ELSE LET c == obj_clone_list(h, h[id].kids, 1, <<>>)
         IN new_Term(c.heap, GROUP, <<>>, c.ids)

\* [clone(child) for child in term.val], from the k-th child on
obj_clone_list(h, ids, k, acc) ==
    IF k > Len(ids) THEN [heap |-> h, ids |-> acc]
    ELSE LET c == obj_clone(h, ids[k])
         IN obj_clone_list(c.heap, ids, k + 1, Append(acc, c.id))

RECURSIVE obj_replace(_, _, _), obj_replace_list(_, _, _, _, _)
\* replace(term, table): a group is changed in place and returned, an atom
\* is returned as it is, a variable gives a clone of its binding; id is
\* KeyErrorRef when a lookup in the table raised.
obj_replace(h, id, table_) ==
    IF h[id].type = ATOM THEN [heap |-> h, id |-> id]
    ELSE IF h[id].type = VAR THEN
        IF h[id].val \in DOMAIN table_ THEN obj_clone(h, table_[h[id].val])
        ELSE [heap |-> h, id |-> KeyErrorRef]
    ELSE LET r == obj_replace_list(h, h[id].kids, 1, <<>>, table_)
         IN IF r.raised THEN [heap |-> r.heap, id |-> KeyErrorRef]
            ELSE [heap |-> [r.heap EXCEPT ![id].kids = r.ids], id |-> id]

\* [replace(child, table) for child in term.val], from the k-th child on
obj_replace_list(h, ids, k, acc, table_) ==
    IF k > Len(ids) THEN [heap |-> h, ids |-> acc, raised |-> FALSE]
    ELSE LET r == obj_replace(h, ids[k], table_)
         IN IF r.id = KeyErrorRef THEN [heap |-> r.heap, ids |-> acc, raised |-> TRUE]
            ELSE obj_replace_list(r.heap, ids, k + 1, Append(acc, r.id), table_)

RECURSIVE obj_match(_, _, _, _), obj_match_zip(_, _, _, _, _)
\* match(pattern, term, table): the table binds names to the subject's own
\* objects; no object is written.
obj_match(h, pat, term, table_) ==
    IF h[pat].type = ATOM THEN
        [ok |-> h[term].type = ATOM /\ h[pat].val = h[term].val, table |-> table_]
    ELSE IF h[pat].type = VAR THEN
        IF h[pat].val \in DOMAIN table_
        THEN [ok |-> bound_equals(h[term], h[table_[h[pat].val]]), table |-> table_]
        ELSE [ok |-> TRUE, table |-> bind(table_, h[pat].val, term)]
    ELSE IF ~(h[term].type = GROUP /\ Len(h[pat].kids) = Len(h[term].kids))
    THEN [ok |-> FALSE, table |-> table_]
    ELSE obj_match_zip(h, h[pat].kids, h[term].kids, 1, table_)

obj_match_zip(h, as, bs, k, table_) ==
    IF k > Len(as) \/ k > Len(bs) THEN [ok |-> TRUE, table |-> table_]
    ELSE LET m == obj_match(h, as[k], bs[k], table_)
         IN IF ~m.ok THEN m ELSE obj_match_zip(h, as, bs, k + 1, m.table)

RECURSIVE obj_reduce_atom_rules(_, _, _, _)
\* for lhs, rhs in rules[term.val]: if match(lhs, term, {}): return clone(rhs)
obj_reduce_atom_rules(h, rs, j, term) ==
    IF j > Len(rs) THEN [heap |-> h, id |-> NoneRef]
    ELSE IF obj_match(h, rs[j][1], term, EmptyTable).ok THEN obj_clone(h, rs[j][2])
    ELSE obj_reduce_atom_rules(h, rs, j + 1, term)

RECURSIVE obj_reduce_group_rules(_, _, _, _)
\* for lhs, rhs in rules[first.val]: table = {}; if match(lhs, term, table):
\* return replace(clone(rhs), table)
obj_reduce_group_rules(h, rs, j, term) ==
    IF j > Len(rs) THEN [heap |-> h, id |-> NoneRef]
    ELSE LET m == obj_match(h, rs[j][1], term, EmptyTable)
         IN IF m.ok
            THEN LET c == obj_clone(h, rs[j][2]) IN obj_replace(c.heap, c.id, m.table)
            ELSE obj_reduce_group_rules(h, rs, j + 1, term)

\* reduce(term, rules).  Returns [heap, id, printed]: id is the object
\* returned, NoneRef, or KeyErrorRef when replace raised.
obj_reduce(h, term, rules_) ==
    LET Plain(r) == [heap |-> r.heap, id |-> r.id, printed |-> <<>>]
        Nothing == [heap |-> h, id |-> NoneRef, printed |-> <<>>]
    IN IF h[term].type = VAR THEN Nothing
       ELSE IF h[term].type = ATOM THEN
           IF h[term].val \in DOMAIN rules_
           THEN Plain(obj_reduce_atom_rules(h, rules_[h[term].val], 1, term))
           ELSE Nothing
       ELSE IF Len(h[term].kids) = 0 \/ h[h[term].kids[1]].type # ATOM THEN Nothing
       ELSE LET first == h[h[term].kids[1]]
            IN IF first.val = print_name /\ Len(h[term].kids) = 2
               THEN [heap |-> h, id |-> h[term].kids[2],
                     printed |-> print_line(str(deref(h, h[term].kids[2])))]
               ELSE IF first.val \in DOMAIN rules_
               THEN Plain(obj_reduce_group_rules(h, rules_[first.val], 1, term))
               ELSE Nothing

RECURSIVE store_rules(_, _, _, _)
\* The objects of the rules that a load appended: for every key the rules of
\* `after` that stand behind those `hr` already holds.  Returns [heap, rules].
store_rules(h, hr, after, keys) ==
    IF keys = {} THEN [heap |-> h, rules |-> hr]
    ELSE LET key == CHOOSE k \in keys : TRUE
             had == IF key \in DOMAIN hr THEN hr[key] ELSE <<>>
         IN IF Len(had) = Len(after[key]) THEN store_rules(h, hr, after, keys \ {key})
            ELSE LET rule == after[key][Len(had) + 1]
                     l == store(h, rule[1])
                     r == store(l.heap, rule[2])
                     more == [k \in DOMAIN hr \cup {key} |->
                                 IF k = key THEN Append(had, <<l.id, r.id>>) ELSE hr[k]]
                 IN store_rules(r.heap, more, after, keys)

\* One iteration of the start-up loop of main, the rules built as objects.
obj_main_load ==
    /\ pc = "load"
    /\ nloaded < Len(args)
    /\ \E l \in {load(args[nloaded + 1], rules)} :
       \E st \in {store_rules(heap, hrules, l.rules, DOMAIN l.rules)} :
          /\ rules' = l.rules
          /\ out' = out \o l.printed
          /\ heap' = st.heap
          /\ hrules' = st.rules
    /\ nloaded' = nloaded + 1
    /\ pc' = IF nloaded + 1 = Len(args) THEN "prompt" ELSE "load"
    /\ UNCHANGED <<args, stdin, inp, initial_term, queue, hterm, hqueue, parsing, matching>>

\* One iteration of the while loop of main, up to the call of full_reduce.
obj_main_input ==
    /\ pc = "prompt"
    /\ IF stdin = <<>> THEN
           /\ out' = out \o prompt
           /\ pc' = "crash"
           /\ UNCHANGED <<rules, stdin, inp, objects>>
       ELSE \E line \in {Head(stdin)} :
           /\ stdin' = Tail(stdin)
           /\ inp' = line
           /\ IF line \in exit_words THEN
                  /\ out' = out \o prompt
                  /\ pc' = "exit"
                  /\ UNCHANGED <<rules, objects>>
              ELSE \E re \in {IF line = reload_word
                              THEN load_all(args, 1, [rules |-> NoRules, printed |-> <<>>])
                              ELSE [rules |-> rules, printed |-> <<>>]} :
                   \E st \in {IF line = reload_word
                              THEN store_rules(heap, NoRules, re.rules, DOMAIN re.rules)
                              ELSE [heap |-> heap, rules |-> hrules]} :
                   \E p \in {parse_term(tokenize(StringIO(line), stdin_name), INPUT, 0)} :
                      /\ rules' = re.rules
                      /\ hrules' = st.rules
                      /\ IF p.ok THEN
                             \E t \in {store(st.heap, p.term)} :
                                /\ out' = out \o prompt \o re.printed
                                /\ heap' = t.heap
                                /\ hterm' = t.id
                                /\ hqueue' = <<t.id>>
                                /\ pc' = "reduce"
                         ELSE
                             /\ out' = out \o prompt \o re.printed \o print_line(err_str(p.err))
                             /\ heap' = st.heap
                             /\ pc' = "prompt"
                             /\ UNCHANGED <<hterm, hqueue>>
    /\ UNCHANGED <<args, nloaded, initial_term, queue, parsing, matching>>

\* One iteration of the while loop of full_reduce, on objects.
obj_full_reduce_step ==
    /\ pc = "reduce"
    /\ hqueue # <<>>
    /\ \E term \in {Head(hqueue)} :
       \E r \in {obj_reduce(heap, term, hrules)} :
          /\ out' = out \o r.printed
          /\ IF r.id = KeyErrorRef THEN
                 /\ pc' = "crash"
                 /\ heap' = r.heap
                 /\ UNCHANGED hqueue
             ELSE IF r.id = NoneRef THEN
                 /\ hqueue' = IF heap[term].type = GROUP
                              THEN Tail(hqueue) \o heap[term].kids
                              ELSE Tail(hqueue)
                 /\ heap' = r.heap
                 /\ UNCHANGED pc
             ELSE
                 \* term.val = res.val; term.type = res.type
                 \E h \in {[r.heap EXCEPT ![term] = r.heap[r.id]]} :
                     /\ TermSize(deref(h, hterm)) <= MaxTermSize
                     /\ heap' = h
                     /\ hqueue' = <<hterm>>
                     /\ UNCHANGED pc
    /\ UNCHANGED <<args, nloaded, rules, stdin, inp, initial_term, queue, hrules, hterm,
                   parsing, matching>>

\* full_reduce returns when the queue is empty, and main prints the term.
obj_main_print ==
    /\ pc = "reduce"
    /\ hqueue = <<>>
    /\ out' = out \o print_line(str(deref(heap, hterm)))
    /\ pc' = "prompt"
    /\ UNCHANGED <<args, nloaded, rules, stdin, inp, initial_term, queue, objects,
                   parsing, matching>>

\* sessions of two queries, the second met with the objects the first left
TwoQueries ==
    { << <<"i", "n", "c", " ", "t", "w", "o">>, <<"z", "e", "r", "o", " ", "a">> >>,
      << <<"+", " ", "t", "h", "r", "e", "e", " ", "o", "n", "e">>,
         <<"+", " ", "t", "h", "r", "e", "e", " ", "o", "n", "e">> >>,
      << <<"f", " ", "a">>, <<"r", "e", "l", "o", "a", "d">> >> }

InitObjects ==
    /\ \E files \in CommandLines, typed \in SeqsUpTo(Inputs, MaxStdin) \cup TwoQueries :
           StartSession(files, typed)
    /\ IdleParsing
    /\ IdleMatching
    /\ IdleObjects

NextObjects ==
    \/ obj_main_load
    \/ obj_main_input
    \/ obj_full_reduce_step
    \/ obj_main_print

SpecObjects == InitObjects /\ [][NextObjects]_vars

-----------------------------------------------------------------------------
(* Properties of the rewriting engine *)

\* the while loop of full_reduce has ended: it returns initial_term
Returned == pc = "reduce" /\ queue = <<>>

\* a reduce call is about to be made on the node at the head of the queue
Reducing == pc = "reduce" /\ queue # <<>>

RECURSIVE Positions(_)
\* every position of a term: the root, and below it heads and arguments alike
Positions(term) ==
    {<<>>} \cup
    (IF is_group(term)
     THEN UNION {{<<k>> \o p : p \in Positions(term.kids[k])} : k \in 1..Len(term.kids)}
     ELSE {})

RECURSIVE HasVariable(_)
HasVariable(term) ==
    \/ term.type = VAR
    \/ term.type = GROUP /\ \E k \in 1..Len(term.kids) : HasVariable(term.kids[k])

\* the term that main parsed from the line it read
InputTerm == parse_term(tokenize(StringIO(inp), stdin_name), INPUT, 0).term

\* C1: when full_reduce returns t', the single-step rewrite reports "no rule
\* applied" (and prints nothing) at every position of t': root, arguments and
\* heads alike.
C1_NormalForm ==
    Returned =>
        \A p \in Positions(initial_term) :
            reduce(node_at(initial_term, p), rules) = [res |-> None, printed |-> <<>>]

\* C1 witness: full_reduce returns an application that rewriting produced.
C1_Witness ==
    /\ Returned
    /\ is_group(initial_term)
    /\ initial_term # InputTerm
    /\ \E p \in Positions(initial_term) : Len(p) = 1 /\ p[1] = 1

RECURSIVE Numeral(_)
\* the Peano numeral of n
Numeral(n) ==
    IF n = 0 THEN Term(<<"0">>, ATOM)
    ELSE Term(<<Term(<<"s">>, ATOM), Numeral(n - 1)>>, GROUP)

MathResults ==
    << [query |-> <<"+", " ", "t", "h", "r", "e", "e", " ", "o", "n", "e">>, result |-> Numeral(4)],
       [query |-> <<"*", " ", "t", "w", "o", " ", "t", "h", "r", "e", "e">>, result |-> Numeral(6)],
       [query |-> <<"*", " ", "t", "w", "o", " ", "z", "e", "r", "o">>, result |-> Numeral(0)],
       [query |-> <<"z", "e", "r", "o">>, result |-> Numeral(0)] >>

\* C2: with the rules of math.coral, full_reduce on each of the four queries
\* terminates and returns the Peano numeral of the arithmetic result.
C2_MathQueries ==
    \A n \in 1..Len(MathResults) :
        (pc = "reduce" /\ inp = MathResults[n].query)
            ~> (Returned /\ inp = MathResults[n].query
                         /\ initial_term = MathResults[n].result)

\* C2 witness: `* two three` has returned the numeral of six.
C2_Witness ==
    /\ Returned
    /\ inp = MathResults[2].query
    /\ initial_term = Numeral(6)
    /\ DOMAIN rules = {<<"z", "e", "r", "o">>, <<"o", "n", "e">>, <<"t", "w", "o">>,
                       <<"t", "h", "r", "e", "e">>, <<"+">>, <<"*">>}

RECURSIVE ParsedOrder(_, _)
\* the rules of a token list in the order parse_rules reads them, up to the
\* first syntax error
ParsedOrder(tokens_, i0) ==
    LET i == skip_newlines(tokens_, i0)
    IN IF i >= Len(tokens_) THEN <<>>
       ELSE LET l == parse_term(tokens_, LEFT, i)
                r == parse_term(tokens_, RIGHT, l.i + 1)
            IN IF ~l.ok \/ ~r.ok THEN <<>>
               ELSE <<<<l.term, r.term>>>> \o ParsedOrder(tokens_, r.i + 1)

FileName(name) == IF endswith(name, dot_coral) THEN name ELSE name \o dot_coral

RECURSIVE LoadedOrder(_)
\* the rules of the first n library files, in the order they were parsed
LoadedOrder(n) ==
    IF n = 0 THEN <<>>
    ELSE LoadedOrder(n - 1)
         \o ParsedOrder(tokenize(ReadFile(FileName(args[n])), FileName(args[n])), 0)

HeadKey(lhs) == IF lhs.type = ATOM THEN lhs.val ELSE lhs.kids[1].val

RulesUnder(key, all) ==
    LET HasKey(rule) == HeadKey(rule[1]) = key IN SelectSeq(all, HasKey)

\* the application shape the built-in takes: (print x)
PrintShape(term) ==
    /\ term.type = GROUP
    /\ Len(term.kids) = 2
    /\ term.kids[1] = Term(print_name, ATOM)

\* the rules that are candidates for a term: those under its head key
Candidates(term) ==
    LET key == IF term.type = ATOM THEN term.val ELSE term.kids[1].val
    IN IF key \in DOMAIN rules THEN rules[key] ELSE <<>>

Matching(term) ==
    {j \in 1..Len(Candidates(term)) : match(Candidates(term)[j][1], term, EmptyTable).ok}

\* what applying the j-th candidate rule to the term gives
Applied(term, j) ==
    LET rule == Candidates(term)[j]
    IN IF term.type = ATOM THEN clone(rule[2])
       ELSE replace(clone(rule[2]), match(rule[1], term, EmptyTable).table)

\* C5: whenever rules have been loaded or full_reduce starts on a term, the
\* rules under a key are, in order, the rules with that key of the libraries
\* loaded so far, in the order they were parsed; and every single-step
\* rewrite applies the earliest rule under the key whose left-hand side
\* matches.
C5_FirstMatchWins ==
    LET all == LoadedOrder(nloaded)
        keys == {HeadKey(all[j][1]) : j \in 1..Len(all)}
    IN /\ pc # "reduce" \/ queue = <<<<>>>> =>
            /\ DOMAIN rules = keys
            /\ \A key \in keys : rules[key] = RulesUnder(key, all)
       /\ Reducing =>
            LET term == node_at(initial_term, Head(queue))
                hits == Matching(term)
            IN (term.type = ATOM \/ (term.type = GROUP /\ term.kids[1].type = ATOM /\ ~PrintShape(term)))
               /\ hits # {}
               => \E j \in hits :
                     /\ \A i \in hits : j <= i
                     /\ reduce(term, rules).res = Applied(term, j)

\* C5 witness: a term is about to be rewritten that matches several rules of
\* its key, rules that came from two library loads and give different terms.
C5_Witness ==
    /\ Reducing
    /\ nloaded = 2
    /\ LET term == node_at(initial_term, Head(queue))
       IN /\ term.type = GROUP
          /\ \E i, j \in Matching(term) :
                /\ i < j
                /\ Applied(term, i) # Applied(term, j)
                /\ Len(RulesUnder(HeadKey(Candidates(term)[1][1]), LoadedOrder(1))) < j

\* C8: the term a full_reduce run returns holds no Variable at any position.
C8_NoVariableInNormalForm == Returned => ~HasVariable(initial_term)

NewLines(chars) == Cardinality({k \in 1..Len(chars) : chars[k] = "\n"})

\* C9: a single-step rewrite of (print x) writes exactly one line, the
\* rendering of x, and puts x in place of the application whatever the rules
\* under key print say; any other step of full_reduce writes nothing.
C9_PrintStep ==
    [][Reducing =>
        LET path == Head(queue)
            term == node_at(initial_term, path)
        IN IF PrintShape(term)
           THEN /\ out' = out \o str(term.kids[2]) \o <<"\n">>
                /\ NewLines(out') = NewLines(out) + 1
                /\ initial_term' = assign(initial_term, path, term.kids[2])
           ELSE out' = out]_vars

\* C9 witness: `print (print a)` has written two lines, the outer
\* application's argument first, while rules under key print were loaded.
C9_Witness ==
    /\ Returned
    /\ print_name \in DOMAIN rules
    /\ args = <<more_arg>>
    /\ initial_term = Term(<<"a">>, ATOM)
    /\ out = prompt \o <<"(", "p", "r", "i", "n", "t", " ", "a", ")", "\n">> \o <<"a", "\n">>

-----------------------------------------------------------------------------
(* Properties of the matcher *)

Matched == pc = "matched"

RECURSIVE TableBefore(_)
\* the table that match hands to the i-th pair of children: the one that
\* the pairs before it left
TableBefore(i) ==
    IF i = 1 THEN table
    ELSE match(pattern.kids[i - 1], subject.kids[i - 1], TableBefore(i - 1)).table

ChildrenMatch ==
    \A i \in 1..Len(pattern.kids) :
        match(pattern.kids[i], subject.kids[i], TableBefore(i)).ok

\* C3 as claimed: an application pattern matches an application subject
\* exactly when it is no longer than the subject and its children match the
\* subject's first children.
C3_PartialApplication ==
    Matched /\ pattern.type = GROUP /\ subject.type = GROUP
        => (matched.ok <=> (Len(pattern.kids) <= Len(subject.kids) /\ ChildrenMatch))

\* C3 amended: an application pattern matches an application subject exactly
\* when both have the same number of children and the children match pairwise,
\* the table passing from each pair to the next; a subject with more children
\* than the pattern does not match.
C3_ExactLength ==
    Matched /\ pattern.type = GROUP /\ subject.type = GROUP
        => /\ matched.ok <=> (Len(pattern.kids) = Len(subject.kids) /\ ChildrenMatch)
           /\ Len(pattern.kids) < Len(subject.kids) => ~matched.ok

\* C3 witness: an application with a variable has matched an application of
\* the same length and bound the variable to the child at its place.
C3_Witness ==
    /\ Matched
    /\ matched.ok
    /\ pattern.type = GROUP
    /\ table = EmptyTable
    /\ Len(pattern.kids) = 2
    /\ pattern.kids[2] = VarA
    /\ subject.type = GROUP
    /\ matched.table = bind(EmptyTable, <<"A">>, subject.kids[2])

EqAA == App(<<Word(<<"e", "q">>), VarA, VarA>>)

\* C4: a Variable that the table already binds matches exactly the subjects
\* structurally equal to its binding, so that eq A A matches eq x x and no
\* application eq x y with two different arguments.
C4_RepeatedVariable ==
    /\ Matched /\ pattern.type = VAR /\ pattern.val \in DOMAIN table
         => (matched.ok <=> table[pattern.val] = subject)
    /\ Matched /\ pattern = EqAA /\ table = EmptyTable
         => (matched.ok <=> /\ subject.type = GROUP
                            /\ Len(subject.kids) = 3
                            /\ subject.kids[1] = Word(<<"e", "q">>)
                            /\ subject.kids[2] = subject.kids[3])

-----------------------------------------------------------------------------
(* Properties of the parser *)

Parsed == pc = "parsed"

RECURSIVE Simplified(_)
\* no application of fewer than two children, none headed by an application
Simplified(term) ==
    term.type = GROUP =>
        /\ Len(term.kids) >= 2
        /\ term.kids[1].type # GROUP
        /\ \A k \in 1..Len(term.kids) : Simplified(term.kids[k])

\* C6: every term parse_term returns, in each mode, is simplified at every
\* depth.
C6_ParserOutputSimplified == Parsed /\ parsed.ok => Simplified(parsed.term)

RECURSIVE ReachedCleanly(_, _, _, _)
\* In Input mode the tokens k..v-1 neither end the term nor raise an error,
\* read at nesting `depth`, `empty` telling whether the open group has no
\* child yet.
ReachedCleanly(k, v, depth, empty) ==
    IF k >= v THEN TRUE
    ELSE LET tok == tokens[k] IN
         IF tok.kind = "Atom" THEN ReachedCleanly(k + 1, v, depth, FALSE)
         ELSE IF tok.kind = "NewLine" THEN depth > 0 /\ ReachedCleanly(k + 1, v, depth, empty)
         ELSE IF tok.val = <<"(">> THEN ReachedCleanly(k + 1, v, depth + 1, TRUE)
         ELSE IF tok.val = <<")">> THEN
             depth > 0 /\ ~empty /\ ReachedCleanly(k + 1, v, depth - 1, FALSE)
         ELSE FALSE

\* C7: in Input mode parse_term returns no term that holds a Variable, and a
\* Variable token reached before the end of the term and before any other
\* error makes it raise "Unexpected token" with the file of that token and
\* the 1-based line and column at which the variable's name stands in the
\* text.
C7_InputForbidsVariables ==
    Parsed /\ mode = INPUT =>
        /\ parsed.ok => ~HasVariable(parsed.term)
        /\ \A v \in 1..Len(tokens) :
              tokens[v].kind = "Variable" /\ ReachedCleanly(1, v, 0, TRUE)
              => /\ ~parsed.ok
                 /\ parsed.err.msg = UnexpectedToken \o tokens[v].val \o <<"'">>
                 /\ parsed.err.file = stdin_name
                 /\ parsed.err.line = tokens[v].line
                 /\ parsed.err.col = tokens[v].col
                 /\ parsed.err.line \in 1..Len(text)
                 /\ parsed.err.col \in 1..Len(text[parsed.err.line])
                 /\ SubSeq(text[parsed.err.line], parsed.err.col,
                           parsed.err.col + Len(tokens[v].val) - 1) = tokens[v].val
                 /\ Len(SelectSeq(SubSeq(tokens, 1, v - 1), LAMBDA t : t.kind = "NewLine"))
                        >= parsed.err.line - 1

\* C7 witness: `+ A 0` in Input mode has raised the error at line 1, column 3.
C7_Witness ==
    /\ Parsed
    /\ mode = INPUT
    /\ text = <<<<"+", " ", "A", " ", "0">>>>
    /\ parsed = Raise(SyntaxError(UnexpectedToken \o <<"A", "'">>, stdin_name, 1, 3))

RECURSIVE RoundTrips(_)
\* no Variable, and every application has two children or more and a head
\* that is no application
RoundTrips(term) ==
    /\ term.type # VAR
    /\ term.type = GROUP =>
          /\ Len(term.kids) >= 2
          /\ term.kids[1].type # GROUP
          /\ \A k \in 1..Len(term.kids) : RoundTrips(term.kids[k])

\* C10: for a term t without Variable, of applications with two children or
\* more and a head that is no application, parsing the tokens of the
\* rendering of t in Input mode succeeds and returns a term equal to t.
C10_RenderingRoundTrip ==
    Parsed /\ mode = INPUT /\ rendered # None /\ RoundTrips(rendered)
        => parsed.ok /\ parsed.term = rendered

\* C10 witness: a nested application has been rendered, tokenized and
\* parsed back to itself.
C10_Witness ==
    /\ Parsed
    /\ mode = INPUT
    /\ rendered = App(<<Word(<<"s">>), App(<<Word(<<"s">>), App(<<Word(<<"s">>), Word(<<"0">>)>>)>>)>>)
    /\ text = <<<<"(", "s", " ", "(", "s", " ", "(", "s", " ", "0", ")", ")", ")">>>>
    /\ parsed.term = rendered

-----------------------------------------------------------------------------
(* Properties of the rendering *)

RECURSIVE RenderInner(_)
\* the rendering of a term that stands inside an application: a name, or the
\* children separated by single spaces between parentheses
RenderInner(term) ==
    IF term.type = GROUP
    THEN <<"(">> \o Join([k \in 1..Len(term.kids) |-> RenderInner(term.kids[k])], <<" ">>) \o <<")">>
    ELSE term.val

\* the rendering that writes no parentheses around an application at the
\* top level
RenderTop(term) ==
    IF term.type = GROUP
    THEN Join([k \in 1..Len(term.kids) |-> RenderInner(term.kids[k])], <<" ">>)
    ELSE term.val

PlusThreeOne == <<"+", " ", "t", "h", "r", "e", "e", " ", "o", "n", "e">>

PrintS0 == <<"p", "r", "i", "n", "t", " ", "(", "s", " ", "0", ")">>

\* what the session has written once the result of the one query is shown
Shown == pc = "prompt" /\ stdin = <<>> /\ Len(inp) > 0 /\ initial_term # None

\* C11 as claimed: the result of a query is written without parentheses
\* around a top-level application, an argument of print with them; the
\* normal form of `+ three one` is shown as `s (s (s (s 0)))` and that of
\* `print (s 0)` as `s 0`.
C11_TopLevelBare ==
    [][pc = "reduce" =>
        IF queue = <<>>
        THEN /\ out' = out \o RenderTop(initial_term) \o <<"\n">>
             /\ args = <<math_arg>> /\ inp = PlusThreeOne
                  => out' = out \o <<"s", " ", "(", "s", " ", "(", "s", " ", "(", "s", " ", "0", ")", ")", ")", "\n">>
             /\ args = <<math_arg>> /\ inp = PrintS0
                  => out' = out \o <<"s", " ", "0", "\n">>
        ELSE LET term == node_at(initial_term, Head(queue))
             IN PrintShape(term) => out' = out \o RenderInner(term.kids[2]) \o <<"\n">>]_vars

\* C11 amended: an Atom or Variable renders as its name and every
\* Application, at the top level as well as nested, as its children
\* separated by single spaces between parentheses; the normal form of
\* `+ three one` is shown as `(s (s (s (s 0))))`, and `print (s 0)` writes
\* `(s 0)` for its argument and again `(s 0)` for the result.
C11_Parenthesised ==
    [][pc = "reduce" =>
        IF queue = <<>>
        THEN /\ out' = out \o RenderInner(initial_term) \o <<"\n">>
             /\ args = <<math_arg>> /\ inp = PlusThreeOne
                  => out' = out \o <<"(", "s", " ", "(", "s", " ", "(", "s", " ", "(", "s", " ", "0", ")", ")", ")", ")", "\n">>
             /\ args = <<math_arg>> /\ inp = PrintS0
                  => out' = out \o <<"(", "s", " ", "0", ")", "\n">>
        ELSE LET term == node_at(initial_term, Head(queue))
             IN PrintShape(term) => out' = out \o RenderInner(term.kids[2]) \o <<"\n">>]_vars

\* C11 witness: with math.coral loaded, `print (s 0)` has written `(s 0)`
\* twice, once for the argument of print and once for the result.
C11_Witness ==
    /\ Shown
    /\ args = <<math_arg>>
    /\ inp = PrintS0
    /\ initial_term = Numeral(1)
    /\ out = prompt \o <<"(", "s", " ", "0", ")", "\n", "(", "s", " ", "0", ")", "\n">>

-----------------------------------------------------------------------------
(* Properties of the rule set that parse_rules builds *)

\* parse_rules has been called on the tokens, once or twice
Loaded == pc \in {"loaded", "reloaded"}

\* the 1-based index of the first token that is no NewLine, 0 if there is none
FirstToken ==
    LET at == {k \in 1..Len(tokens) : tokens[k].kind # "NewLine"}
    IN IF at = {} THEN 0 ELSE CHOOSE k \in at : \A m \in at : k <= m

\* C12: after one parse or two of a token list into a rule set, also a parse
\* that a syntax error ended, every rule stored under a key k has as lhs the
\* Atom named k or an Application whose first child is the Atom named k; and
\* a text whose first rule begins with a Variable or with `(` is rejected
\* with "Unexpected token" at that token, nothing being stored.
C12_HeadKeyInvariant ==
    Loaded =>
        /\ \A key \in DOMAIN rules : \A j \in 1..Len(rules[key]) :
              LET lhs == rules[key][j][1]
              IN \/ lhs = Term(key, ATOM)
                 \/ /\ lhs.type = GROUP
                    /\ Len(lhs.kids) >= 2
                    /\ lhs.kids[1] = Term(key, ATOM)
        /\ LET k == FirstToken
           IN k > 0 /\ (tokens[k].kind = "Variable" \/ tokens[k].val = <<"(">>)
              => /\ rules = NoRules
                 /\ parsed = Raise(SyntaxError(UnexpectedToken \o tokens[k].val \o <<"'">>,
                                               stdin_name, tokens[k].line, tokens[k].col))

\* C12 witness: of the text `f A = A`, `(k) = d` the first rule is stored
\* under f, twice after two parses, and the second is rejected at its `(`.
C12_Witness ==
    /\ pc = "reloaded"
    /\ DOMAIN rules = {<<"f">>}
    /\ Len(rules[<<"f">>]) = 2
    /\ rules[<<"f">>][2] = <<App(<<Word(<<"f">>), VarA>>), VarA>>
    /\ parsed = Raise(SyntaxError(UnexpectedToken \o <<"(", "'">>, stdin_name, 2, 1))

-----------------------------------------------------------------------------
(* Soundness of the matcher *)

RECURSIVE VariablesOf(_)
\* the names of the Variable leaves of a term
VariablesOf(term) ==
    IF term.type = VAR THEN {term.val}
    ELSE IF term.type = GROUP
    THEN UNION {VariablesOf(term.kids[k]) : k \in 1..Len(term.kids)}
    ELSE {}

RECURSIVE Substitute(_, _)
\* the pattern with every Variable leaf replaced by its binding; a Variable
\* without binding stays
Substitute(term, sigma) ==
    IF term.type = VAR THEN (IF term.val \in DOMAIN sigma THEN sigma[term.val] ELSE term)
    ELSE IF term.type = GROUP
    THEN [term EXCEPT !.kids = [k \in 1..Len(term.kids) |-> Substitute(term.kids[k], sigma)]]
    ELSE term

\* the subject restricted to its first n children
FirstChildren(term, n) ==
    IF term.type = GROUP /\ n <= Len(term.kids)
    THEN [term EXCEPT !.kids = SubSeq(term.kids, 1, n)]
    ELSE term

\* C13: when match(p, s, {}) succeeds with table sigma, every variable of p
\* is bound in sigma, and p with its Variable leaves replaced by their
\* bindings equals s restricted to its first len(p) children (s itself when
\* p is a leaf).
C13_MatchSound ==
    Matched /\ table = EmptyTable /\ matched.ok =>
        /\ VariablesOf(pattern) \subseteq DOMAIN matched.table
        /\ Substitute(pattern, matched.table)
              = (IF pattern.type = GROUP THEN FirstChildren(subject, Len(pattern.kids))
                 ELSE subject)

\* C13 witness: + A (s B) has matched + three (s 0), binding A to three and
\* B to 0.
C13_Witness ==
    /\ Matched
    /\ matched.ok
    /\ table = EmptyTable
    /\ pattern = App(<<Word(<<"+">>), VarA, App(<<Word(<<"s">>), VarB>>)>>)
    /\ subject = App(<<Word(<<"+">>), Word(<<"t", "h", "r", "e", "e">>), App(<<Word(<<"s">>), Word(<<"0">>)>>)>>)
    /\ matched.table[<<"A">>] = Word(<<"t", "h", "r", "e", "e">>)
    /\ matched.table[<<"B">>] = Word(<<"0">>)

-----------------------------------------------------------------------------
(* The strategy of full_reduce *)

RECURSIVE LeftOf(_, _)
\* of two positions of the same depth, p stands to the left of q
LeftOf(p, q) ==
    /\ Len(p) > 0
    /\ \/ Head(p) < Head(q)
       \/ Head(p) = Head(q) /\ LeftOf(Tail(p), Tail(q))

\* p comes before q in breadth-first order from the root
Before(p, q) == Len(p) < Len(q) \/ (Len(p) = Len(q) /\ LeftOf(p, q))

\* the single-step rewrite succeeds at position p of the term being reduced
Reducible(p) == reduce(node_at(initial_term, p), rules).res \notin {None, KeyError}

\* C14: every rewrite of full_reduce happens at the first position, in
\* breadth-first order from the root, at which the single-step rewrite
\* succeeds; right after it the queue holds the root alone; and an iteration
\* that rewrites nothing leaves the term as it was.
C14_OutermostFirst ==
    [][Reducing =>
        LET path == Head(queue)
        IN IF Reducible(path)
           THEN /\ \A q \in Positions(initial_term) : Before(q, path) => ~Reducible(q)
                /\ \A q \in Positions(initial_term) :
                      Reducible(q) /\ q # path => Before(path, q)
                /\ initial_term' = assign(initial_term, path, reduce(node_at(initial_term, path), rules).res)
                /\ queue' = <<<<>>>>
           ELSE initial_term' = initial_term]_vars

WZeroZero ==
    <<"w", " ", "(", "w", " ", "z", "e", "r", "o", ")", " ", "z", "e", "r", "o">>

\* C14 witness: in w (w zero) zero, with math.coral loaded, the zero at
\* depth one has been rewritten while the zero at depth two, a position to
\* its left, still stands; the queue holds the root alone.
C14_Witness ==
    /\ pc = "reduce"
    /\ args = <<math_arg>>
    /\ inp = WZeroZero
    /\ queue = <<<<>>>>
    /\ initial_term = App(<<Word(<<"w">>),
                            App(<<Word(<<"w">>), Word(<<"z", "e", "r", "o">>)>>),
                            Word(<<"0">>)>>)
    /\ Reducible(<<2, 2>>)

-----------------------------------------------------------------------------
(* Head positions *)

\* the position is the head of an application: its last index is the first
\* child
HeadPosition(p) == Len(p) > 0 /\ p[Len(p)] = 1

ZeroA == <<"z", "e", "r", "o", " ", "a">>

\* C15 as claimed: full_reduce never enqueues the head of an application, so
\* no head position is ever dequeued or rewritten on its own.
C15_HeadsNotReduced ==
    pc = "reduce" => \A k \in 1..Len(queue) : ~HeadPosition(queue[k])

\* C15 amended: when no rule applies to an Application u, full_reduce
\* enqueues every child of u, the head u[0] included, in order behind what
\* the queue holds; a head position that is dequeued is rewritten like any
\* other when a rule applies to it.
C15_HeadsReduced ==
    [][Reducing =>
        LET path == Head(queue)
            u == node_at(initial_term, path)
            r == reduce(u, rules)
        IN /\ r.res = None /\ u.type = GROUP
                => /\ queue' = Tail(queue) \o [k \in 1..Len(u.kids) |-> path \o <<k>>]
                   /\ Len(u.kids) > 0 => HeadPosition(queue'[Len(queue') - Len(u.kids) + 1])
           /\ HeadPosition(path) /\ r.res \notin {None, KeyError}
                => /\ initial_term' = assign(initial_term, path, r.res)
                   /\ node_at(initial_term', path) = r.res]_vars

\* C15 witness: with math.coral loaded, the head of `zero a` has been
\* rewritten on its own and full_reduce has returned (0 a).
C15_Witness ==
    /\ Returned
    /\ args = <<math_arg>>
    /\ inp = ZeroA
    /\ initial_term = App(<<Word(<<"0">>), AtomA>>)

-----------------------------------------------------------------------------
(* Rules whose left-hand side is an Atom, and applications headed by it *)

\* the rules under the head atom of an application, [] when there are none
RulesOfHead(t) ==
    IF t.kids[1].val \in DOMAIN rules THEN rules[t.kids[1].val] ELSE <<>>

\* the indices of the rules under the head atom of t that apply to t when a
\* rule whose lhs is the head Atom applies to every application it heads
HeadMatching(t) ==
    {j \in 1..Len(RulesOfHead(t)) :
        \/ RulesOfHead(t)[j][1] = t.kids[1]
        \/ match(RulesOfHead(t)[j][1], t, EmptyTable).ok}

\* t is an application with an atom head, no (print x), and the first rule
\* that applies to it has the head Atom as its lhs
AtomRuleFirst(t) ==
    /\ t.type = GROUP
    /\ Len(t.kids) >= 2
    /\ t.kids[1].type = ATOM
    /\ ~PrintShape(t)
    /\ HeadMatching(t) # {}
    /\ LET j == CHOOSE i \in HeadMatching(t) : \A m \in HeadMatching(t) : i <= m
       IN RulesOfHead(t)[j][1] = t.kids[1]

\* the rhs of the first rule under the head atom of t whose lhs is that Atom
FirstAtomRhs(t) ==
    LET hits == {i \in 1..Len(RulesOfHead(t)) : RulesOfHead(t)[i][1] = t.kids[1]}
    IN RulesOfHead(t)[CHOOSE i \in hits : \A m \in hits : i <= m][2]

\* rhs followed by the remaining children, group-simplified
Spliced(rhs, rest) ==
    LET children == (IF rhs.type = GROUP THEN rhs.kids ELSE <<rhs>>) \o rest
    IN IF Len(children) = 1 THEN children[1] ELSE Term(children, GROUP)

\* C16 as claimed: an application t whose first applicable rule has the
\* head Atom as lhs is rewritten to the rhs followed by t[1..],
\* group-simplified: `inc two` becomes `+ one two`.
C16_SuffixPreserved ==
    [][Reducing =>
        LET path == Head(queue)
            t == node_at(initial_term, path)
        IN AtomRuleFirst(t)
           => initial_term' = assign(initial_term, path, Spliced(FirstAtomRhs(t), Tail(t.kids)))]_vars

\* the indices of the rules under the head atom of t whose Application lhs
\* matches t
GroupMatching(t) ==
    {j \in 1..Len(RulesOfHead(t)) :
        RulesOfHead(t)[j][1].type = GROUP /\ match(RulesOfHead(t)[j][1], t, EmptyTable).ok}

\* C16 amended: a rule whose lhs is the Atom a never applies to an
\* application t headed by a: the single-step rewrite of t skips it and
\* applies the first rule under a whose Application lhs matches t; when there
\* is none it reports "no rule applied" and the children of t are enqueued.
\* The atom rule fires when the head is dequeued on its own: clone(rhs) takes
\* the place of the head and t[1..] stay where they are, nothing being
\* spliced, so that an Application rhs becomes a nested head.
C16_HeadRewrittenInPlace ==
    [][Reducing =>
        LET path == Head(queue)
            t == node_at(initial_term, path)
        IN /\ AtomRuleFirst(t) /\ GroupMatching(t) = {}
              => /\ reduce(t, rules).res = None
                 /\ initial_term' = initial_term
                 /\ queue' = Tail(queue) \o [k \in 1..Len(t.kids) |-> path \o <<k>>]
           /\ AtomRuleFirst(t) /\ GroupMatching(t) # {}
              => LET j == CHOOSE i \in GroupMatching(t) : \A m \in GroupMatching(t) : i <= m
                 IN /\ reduce(t, rules).res = Applied(t, j)
                    /\ Applied(t, j) # KeyError
                         => initial_term' = assign(initial_term, path, Applied(t, j))
           /\ HeadPosition(path)
              => LET u == node_at(initial_term, SubSeq(path, 1, Len(path) - 1))
                 IN AtomRuleFirst(u)
                    => node_at(initial_term', SubSeq(path, 1, Len(path) - 1))
                          = [u EXCEPT !.kids[1] = FirstAtomRhs(u)]]_vars

IncTwo == <<"i", "n", "c", " ", "t", "w", "o">>

\* C16 witness: with math.coral and more.coral loaded, `inc two` has been
\* reduced to ((+ (s 0)) (s (s 0))), the rhs of inc a nested head.
C16_Witness ==
    /\ Returned
    /\ args = <<math_arg, more_arg>>
    /\ inp = IncTwo
    /\ initial_term = App(<<App(<<Word(<<"+">>), Numeral(1)>>), Numeral(2)>>)

-----------------------------------------------------------------------------
(* End of line inside a group *)

RECURSIVE Consumed(_, _, _, _)
\* Where parse_term stands when it has consumed the tokens k..v-1 in the
\* mode of the harness, starting at nesting `depth` with `empty` telling
\* whether the open group has no child yet: [ok, depth, empty], ok being
\* FALSE when one of these tokens ends the term or raises an error.
Consumed(k, v, depth, empty) ==
    IF k >= v THEN [ok |-> TRUE, depth |-> depth, empty |-> empty]
    ELSE LET tok == tokens[k]
             Stop == [ok |-> FALSE, depth |-> depth, empty |-> empty]
         IN IF tok.kind = "Atom" THEN Consumed(k + 1, v, depth, FALSE)
            ELSE IF mode = LEFT /\ empty THEN Stop
            ELSE IF tok.kind = "Variable"
            THEN (IF mode = INPUT THEN Stop ELSE Consumed(k + 1, v, depth, FALSE))
            ELSE IF tok.kind = "NewLine"
            THEN (IF depth > 0 THEN Consumed(k + 1, v, depth, empty) ELSE Stop)
            ELSE IF tok.val = <<"(">> THEN Consumed(k + 1, v, depth + 1, TRUE)
            ELSE IF tok.val = <<")">>
            THEN (IF depth > 0 /\ ~empty THEN Consumed(k + 1, v, depth - 1, FALSE) ELSE Stop)
            ELSE Stop

\* the NewLine tokens that parse_term meets while a group is open
OpenNewLines ==
    {v \in 1..Len(tokens) :
        /\ tokens[v].kind = "NewLine"
        /\ Consumed(1, v, 0, TRUE).ok
        /\ Consumed(1, v, 0, TRUE).depth > 0}

\* the token list without its v-th token
Without(v) == SubSeq(tokens, 1, v - 1) \o SubSeq(tokens, v + 1, Len(tokens))

\* the result of a parse that read one token more
OneLater(p) == IF p.ok THEN [p EXCEPT !.i = p.i + 1] ELSE p

\* C17 as claimed: in every mode a NewLine token met inside an open group
\* makes parse_term fail with "Unexpected end of line", and no term that
\* parse_term returns has a NewLine among its tokens.
C17_EndOfLineInGroup ==
    Parsed =>
        /\ OpenNewLines # {} => ~parsed.ok /\ parsed.err.msg = UnexpectedEndOfLine
        /\ parsed.ok => \A k \in 1..parsed.i : tokens[k].kind # "NewLine"

\* C17 amended: a NewLine token met inside an open group is skipped, the
\* parse going on as if the token were not there, in Right and Input mode
\* and in Left mode once the open group has a child; in Left mode with the
\* open group still empty it fails at that token.  parse_term fails with
\* "Unexpected end of line" at the last token when the tokens end inside an
\* open group.
C17_EndOfLineSkipped ==
    Parsed =>
        /\ \A v \in OpenNewLines :
              IF mode = LEFT /\ Consumed(1, v, 0, TRUE).empty
              THEN parsed = Raise(SyntaxError(UnexpectedEndOfLine, stdin_name,
                                              tokens[v].line, tokens[v].col))
              ELSE v < Len(tokens) => parsed = OneLater(parse_term(Without(v), mode, 0))
        /\ LET end == Consumed(1, Len(tokens) + 1, 0, TRUE)
           IN end.ok /\ end.depth > 0
              => parsed = Raise(SyntaxError(UnexpectedEndOfLine, stdin_name,
                                            tokens[Len(tokens)].line, tokens[Len(tokens)].col))

\* C17 witness: in Right mode the text `(a`, ` b) # A`, `  B` has given the
\* term (a b), whose tokens stand on two lines.
C17_Witness ==
    /\ Parsed
    /\ mode = RIGHT
    /\ Len(text) = 3
    /\ text[1] = <<"(", "a", "\n">>
    /\ OpenNewLines = {3}
    /\ parsed = Return(App(<<AtomA, AtomB>>), 5)

-----------------------------------------------------------------------------
(* The first child of a nested group of a left-hand side *)

\* the tokens that, in Left mode, stand first in a nested group and are a
\* Variable or `(`, everything before them having been consumed
NestedFirst ==
    {v \in 1..Len(tokens) :
        /\ tokens[v].kind = "Variable" \/ tokens[v].val = <<"(">>
        /\ Consumed(1, v, 0, TRUE).ok
        /\ Consumed(1, v, 0, TRUE).depth > 0
        /\ Consumed(1, v, 0, TRUE).empty}

\* C18: in Left mode a Variable or a `(` that is the first element of a
\* nested group is accepted, no error is raised at it, and the text
\* `f (A b) = A` gives the lhs f (A b), the parse ending at the `=`.
C18_NestedFirstChild ==
    Parsed /\ mode = LEFT =>
        /\ \A v \in NestedFirst :
              ~(/\ ~parsed.ok
                /\ parsed.err.line = tokens[v].line
                /\ parsed.err.col = tokens[v].col)
        /\ text = <<<<"f", " ", "(", "A", " ", "b", ")", " ", "=", " ", "A", "\n">>>>
              => parsed = Return(App(<<Word(<<"f">>), App(<<VarA, AtomB>>)>>), 5)

-----------------------------------------------------------------------------
(* Loading a library that holds a syntax error *)

RECURSIVE ParsedError(_, _)
\* the syntax error that ends the reading of the rules of a token list,
\* NoError when every rule is well formed
ParsedError(tokens_, i0) ==
    LET i == skip_newlines(tokens_, i0)
    IN IF i >= Len(tokens_) THEN NoError
       ELSE LET l == parse_term(tokens_, LEFT, i)
                r == parse_term(tokens_, RIGHT, l.i + 1)
            IN IF ~l.ok THEN l.err
               ELSE IF ~r.ok THEN r.err
               ELSE ParsedError(tokens_, r.i + 1)

\* the list of rules under a key, [] when the rule set has no such key
Under(rs, key) == IF key \in DOMAIN rs THEN rs[key] ELSE <<>>

\* C20: a load of a library whose tokens hold n well-formed rules and then a
\* malformed one appends exactly those n rules, in order, to the rule set of
\* the caller, behind the rules already there, which stay as they are; it
\* prints the syntax error and returns None.  A library without error adds
\* all its rules, prints nothing and returns the rule set.
C20_LoadNotAtomic ==
    [][pc = "load" =>
        LET name == args[nloaded + 1]
            toks == tokenize(ReadFile(FileName(name)), FileName(name))
            good == ParsedOrder(toks, 0)
            err == ParsedError(toks, 0)
            keys == {HeadKey(good[j][1]) : j \in 1..Len(good)}
        IN /\ DOMAIN rules' = DOMAIN rules \cup keys
           /\ \A key \in DOMAIN rules' :
                 rules'[key] = Under(rules, key) \o RulesUnder(key, good)
           /\ IF err = NoError
              THEN out' = out /\ load(name, rules).ret
              ELSE /\ out' = out \o err_str(err) \o <<"\n">>
                   /\ ~load(name, rules).ret]_vars

\* C20 witness: bad.coral, two rules and then `(k) = d`, has been loaded
\* twice: the rule set holds its first two rules twice over and nothing of
\* what follows the error, which was printed twice.
C20_Witness ==
    /\ pc = "prompt"
    /\ args = <<bad_arg, bad_arg>>
    /\ DOMAIN rules = {<<"k">>}
    /\ rules[<<"k">>] = << <<Word(<<"k">>), AtomA>>, <<App(<<Word(<<"k">>), AtomB>>), Word(<<"c">>)>>,
                            <<Word(<<"k">>), AtomA>>, <<App(<<Word(<<"k">>), AtomB>>), Word(<<"c">>)>> >>
    /\ LET line == <<"U", "n", "e", "x", "p", "e", "c", "t", "e", "d", " ", "t", "o", "k", "e", "n", " ",
                     "'", "(", "'", " ", "a", "t", " ", "3", ":", "1", " ", "i", "n", " ",
                     "'", "b", "a", "d", ".", "c", "o", "r", "a", "l", "'", "\n">>
       IN out = line \o line

-----------------------------------------------------------------------------
(* Rule templates and the terms that full_reduce builds, as objects *)

RECURSIVE Reach(_, _)
\* the addresses of the objects of the term at an address
Reach(h, id) == {id} \cup UNION {Reach(h, h[id].kids[k]) : k \in 1..Len(h[id].kids)}

\* the addresses of the lhs and rhs of the rules
Templates ==
    UNION {UNION {{hrules[key][j][1], hrules[key][j][2]} : j \in 1..Len(hrules[key])} :
              key \in DOMAIN hrules}

TemplateObjects == UNION {Reach(heap, id) : id \in Templates}

\* an iteration of full_reduce is about to run on the object at the head of
\* the queue
ObjReducing == pc = "reduce" /\ hqueue # <<>>

\* C19: through every run of full_reduce, print steps and rewrites of
\* rewritten terms included, (1) the lhs and rhs of every rule read as they
\* were parsed; (2) the term being reduced shares no object with a rule
\* template and (3) holds no object twice; (4) an iteration changes no object
\* that existed before it other than the one it rewrites, and none at all
\* when no rule applies (matching writes neither pattern nor subject);
\* (5) every object below a term that a rule produced is new.
C19_TemplatesImmutable ==
    /\ [](/\ DOMAIN hrules = DOMAIN rules
          /\ \A key \in DOMAIN hrules :
                /\ Len(hrules[key]) = Len(rules[key])
                /\ \A j \in 1..Len(hrules[key]) :
                      /\ deref(heap, hrules[key][j][1]) = rules[key][j][1]
                      /\ deref(heap, hrules[key][j][2]) = rules[key][j][2]
          /\ hterm # NoneRef
                => /\ Reach(heap, hterm) \cap TemplateObjects = {}
                   /\ Cardinality(Reach(heap, hterm)) = TermSize(deref(heap, hterm)))
    /\ [][ObjReducing =>
            LET term == Head(hqueue)
                r == obj_reduce(heap, term, hrules)
            IN /\ \A id \in DOMAIN heap : id # term => heap'[id] = heap[id]
               /\ r.id = NoneRef => heap' = heap
               /\ r.id \notin {NoneRef, KeyErrorRef} /\ ~PrintShape(deref(heap, term))
                    => (Reach(heap', term) \ {term}) \cap DOMAIN heap = {}]_vars

\* C19 witness: with math.coral loaded, full_reduce has returned the numeral
\* of four for `+ three one`, built by rewrites of terms that earlier
\* rewrites produced, and the rhs of the rule `three` still reads s (s (s 0)).
C19_Witness ==
    /\ pc = "reduce"
    /\ hqueue = <<>>
    /\ args = <<math_arg>>
    /\ inp = PlusThreeOne
    /\ deref(heap, hterm) = Numeral(4)
    /\ deref(heap, hrules[<<"t", "h", "r", "e", "e">>][1][2]) = Numeral(3)
    /\ Len(heap) > Cardinality(TemplateObjects) + 4

====
